---- MODULE Spec2Model ----
(***************************************************************************)
(* Model of chordprobook: the pagination pass (cp_song_book.reorder, in    *)
(* both src/chordprobook/books/__init__.py and the older script            *)
(* src/chordprobook.py), the contents builder (TOC), cp_song_book.format   *)
(* and the note transposer.                                                *)
(*                                                                         *)
(* A song is a record [id, pages, blank].  id stands for the title (the    *)
(* only thing that tells two songs apart here), pages for cp_song.pages    *)
(* and blank for cp_song.blank.  A book is the list songs, the list sets   *)
(* and the keep_order flag.                                                *)
(***************************************************************************)
EXTENDS Integers, Sequences, FiniteSets

VARIABLES
    songs,            \* cp_song_book.songs
    sets,             \* cp_song_book.sets (books/__init__.py only)
    keep_order,       \* cp_song_book.keep_order
    legacy,           \* TRUE: the book is a cp_song_book of src/chordprobook.py
    op,               \* the last operation carried out on the book
    in_songs,         \* book.songs when the last operation was called
    in_start,         \* the start_page argument of the last operation
    toc_pages,        \* TOC.pages of the last TOC built
    contents,         \* cp_song_book.contents: the rendered contents pages
    target_num_pages, \* TOC.target_num_pages of the last TOC built
    calls,            \* number of operations carried out so far
    note,             \* transposer: the note handed to transpose_note
    offset,           \* transposer: the offset of the first transposer
    out1,             \* transposer: result of transposer(offset).transpose_note(note)
    out2,             \* transposer: result of transposer(-offset).transpose_note(out1)
    tpc,              \* transposer: number of transpositions done (0, 1, 2)
    chord_in,         \* transposer: the string handed to transpose_chord
    chord_offset,     \* transposer: the offset of the transposer used on chord
    chord_out,        \* transposer: what the call on chord returned
    chord_op,         \* transposer: the call made on chord ("init": none yet)
    dline,            \* classifier: the line handed to directive()
    dir_out,          \* classifier: type and value of the directive object built
    dir_done,         \* classifier: the line has been classified
    src_text,         \* song: the text handed to cp_song
    arg_transpose,    \* song: the transpose argument handed to cp_song
    song_obj,         \* song: the fields of the cp_song object, once built
    song_op,          \* song: the last call made ("init": none yet)
    sl_heap,          \* setlist: the fields of every song object of the book
    sl_songs,         \* setlist: book.songs, as positions in sl_heap
    sl_sets,          \* setlist: book.sets, as positions in sl_heap
    sl_loaded,        \* setlist: sl_heap as it was when the book was loaded
    sl_text,          \* setlist: the setlist handed to order_by_setlist
    sl_op,            \* setlist: "init", "done" or the exception raised
    default_new_order, \* the list object that is the default of reorder's new_order
    default_waiting   \* the list object that is the default of reorder's waiting

bookvars == <<songs, sets, keep_order, legacy, op, in_songs, in_start,
              toc_pages, contents, target_num_pages, calls>>
trvars == <<note, offset, out1, out2, tpc>>
chordvars == <<chord_in, chord_offset, chord_out, chord_op>>
dirvars == <<dline, dir_out, dir_done>>
songvars == <<src_text, arg_transpose, song_obj, song_op>>
setlistvars == <<sl_heap, sl_songs, sl_sets, sl_loaded, sl_text, sl_op>>
textvars == <<chordvars, dirvars, songvars, setlistvars>>
defaultvars == <<default_new_order, default_waiting>>
vars == <<songs, sets, keep_order, legacy, op, in_songs, in_start,
          toc_pages, contents, target_num_pages, calls, note, offset, out1, out2, tpc,
          chord_in, chord_offset, chord_out, chord_op, dline, dir_out, dir_done,
          src_text, arg_transpose, song_obj, song_op,
          sl_heap, sl_songs, sl_sets, sl_loaded, sl_text, sl_op,
          default_new_order, default_waiting>>

(***************************************************************************)
(* Bounds of the model.                                                    *)
(***************************************************************************)
MaxSongs == 4      \* longest song list of a book that is only paginated
MaxPages == 3      \* largest page count of a song
MaxStart == 3      \* largest start_page of a book that is only paginated
MaxTocStart == 1   \* largest start_page handed to TOC on its own
MaxSets == 2       \* largest number of sets of a book
MaxCalls == 2      \* operations carried out on one book
MaxHead == 1       \* songs of any page count at the head of a long book
FillA == 50        \* one-page songs after the head: about max_songs_per_page
FillB == 120       \* one-page songs after the head: three ideal pages
MaxOffset == 11    \* transposition offsets are -MaxOffset .. MaxOffset
MaxChordLen == 3   \* longest chord string made of ChordChars
MaxChordOffset == 2 \* offsets of transpose_chord are -MaxChordOffset .. MaxChordOffset
MaxLineLen == 5    \* longest line made of LineChars
MaxSongLines == 2  \* most lines of a song text made of SongLines
MaxSetlistLines == 2 \* most lines of a setlist made of SetlistLines
MaxDefaultSongs == 2 \* longest song list of a book paginated with the default lists
MaxDefaultCalls == 2 \* calls of reorder that use the default lists

FillCounts == {0, FillA, FillB}

(***************************************************************************)
(* Songs.                                                                  *)
(***************************************************************************)
\* cp_song(text): a song that is not blank; parse leaves pages = 1 + the
\* number of new_page directives
Song(i, p) == [id |-> i, pages |-> p, blank |-> FALSE]

\* cp_song("", title="", blank=True)
BlankSong == [id |-> 0, pages |-> 1, blank |-> TRUE]

\* cp_song("{title:This page intentionally left blank}", blank=True)
LegacyBlankSong == [id |-> 0, pages |-> 1, blank |-> TRUE]

\* cp_song("{title: <set name>}"): the pseudo-song of a set
SetSong(i) == [id |-> i, pages |-> 1, blank |-> FALSE]

IsBlank(s) == s.blank
NotBlank(s) == ~s.blank

\* TRUE; to find it so, v is evaluated: a loop that is composed by halves asks
\* for the result of its first half before it enters the second
Known(v) == v = v

\* the pages of seq[lo..hi], added up by halves so that the evaluation of a
\* long list stays shallow
RECURSIVE SumRange(_, _, _)
SumRange(seq, lo, hi) ==
    IF lo > hi THEN 0
    ELSE IF lo = hi THEN seq[lo].pages
    ELSE LET mid == (lo + hi) \div 2
         IN  SumRange(seq, lo, mid) + SumRange(seq, mid + 1, hi)

SumPages(seq) == SumRange(seq, 1, Len(seq))

\* the page on which entry i of a list begins when the list begins at start
PageOf(seq, start, i) == start + SumPages(SubSeq(seq, 1, i - 1))

Count(seq, x) == Cardinality({i \in 1..Len(seq) : seq[i] = x})
Range(seq) == {seq[i] : i \in 1..Len(seq)}

(***************************************************************************)
(* cp_song_book.reorder of src/chordprobook/books/__init__.py.  The        *)
(* function is recursive over old; one level of the recursion is           *)
(* reorder_head, the level that finds old empty is reorder_done.           *)
(***************************************************************************)
\* reorder_done without the blank that moves the waiting songs to an even page
reorder_done_no_blank(start_page, new_order, waiting) ==
    new_order \o waiting

\* reorder_done that forgets the songs that still wait
reorder_done_drops_waiting(start_page, new_order, waiting) ==
    IF start_page % 2 = 1 /\ waiting # <<>>
    THEN Append(new_order, BlankSong)
    ELSE new_order

\* reorder_done that puts a blank on every odd page, songs waiting or not
reorder_done_blank_on_odd(start_page, new_order, waiting) ==
    IF start_page % 2 = 1
    THEN Append(new_order, BlankSong) \o waiting
    ELSE new_order \o waiting

\* old == []: a blank if the page is odd and songs wait, then the waiting songs
reorder_done(start_page, new_order, waiting) ==
    IF start_page % 2 = 1 /\ waiting # <<>>
    THEN Append(new_order, BlankSong) \o waiting
    ELSE new_order \o waiting

\* reorder_head that does not look at keep_order: a spread on an odd page waits
reorder_head_ignores_keep(start_page, s, new_order, waiting, keep) ==
    IF start_page % 2 = 0
    THEN [start_page |-> start_page + SumPages(waiting) + s.pages,
          new_order  |-> Append(new_order \o waiting, s),
          waiting    |-> <<>>]
    ELSE IF s.pages % 2 = 0
    THEN [start_page |-> start_page,
          new_order  |-> new_order,
          waiting    |-> Append(waiting, s)]
    ELSE [start_page |-> start_page + s.pages,
          new_order  |-> Append(new_order, s),
          waiting    |-> waiting]

\* reorder_head that leaves start_page alone after an odd song on an odd page
reorder_head_odd_not_counted(start_page, s, new_order, waiting, keep) ==
    IF start_page % 2 = 0
    THEN [start_page |-> start_page + SumPages(waiting) + s.pages,
          new_order  |-> Append(new_order \o waiting, s),
          waiting    |-> <<>>]
    ELSE IF s.pages % 2 = 0
    THEN IF keep
         THEN [start_page |-> start_page + 1,
               new_order  |-> Append(Append(new_order, BlankSong), s),
               waiting    |-> waiting]
         ELSE [start_page |-> start_page,
               new_order  |-> new_order,
               waiting    |-> Append(waiting, s)]
    ELSE [start_page |-> start_page,
          new_order  |-> Append(new_order, s),
          waiting    |-> waiting]

\* old # []: what one level does with old[0] = s before it recurses
reorder_head(start_page, s, new_order, waiting, keep) ==
    IF start_page % 2 = 0
    THEN [start_page |-> start_page + SumPages(waiting) + s.pages,
          new_order  |-> Append(new_order \o waiting, s),
          waiting    |-> <<>>]
    ELSE IF s.pages % 2 = 0
    THEN IF keep
         THEN [start_page |-> start_page + 1,
               new_order  |-> Append(Append(new_order, BlankSong), s),
               waiting    |-> waiting]
         ELSE [start_page |-> start_page,
               new_order  |-> new_order,
               waiting    |-> Append(waiting, s)]
    ELSE [start_page |-> start_page + s.pages,
          new_order  |-> Append(new_order, s),
          waiting    |-> waiting]

\* the levels of the recursion that handle old[lo..hi], in order, from the
\* arguments r = [start_page, new_order, waiting] of the first of them; the
\* levels are composed by halves so that the evaluation of a long list stays
\* shallow, which gives the result of the head-first recursion of the source
RECURSIVE reorder_levels(_, _, _, _, _)
reorder_levels(old, lo, hi, r, keep) ==
    IF lo > hi THEN r
    ELSE IF lo = hi
    THEN reorder_head(r.start_page, old[lo], r.new_order, r.waiting, keep)
    ELSE LET mid == (lo + hi) \div 2
             left == reorder_levels(old, lo, mid, r, keep)
         IN  IF Known(left)
             THEN reorder_levels(old, mid + 1, hi, left, keep)
             ELSE left

\* reorder(start_page, old, new_order, waiting): the value left in self.songs
reorder(start_page, old, new_order, waiting, keep) ==
    LET r == reorder_levels(old, 1, Len(old),
                            [start_page |-> start_page,
                             new_order  |-> new_order,
                             waiting    |-> waiting], keep)
    IN  reorder_done(r.start_page, r.new_order, r.waiting)

(***************************************************************************)
(* cp_song_book.reorder of src/chordprobook.py, the older script.          *)
(***************************************************************************)
legacy_reorder_done(start_page, new_order, waiting) ==
    IF start_page % 2 = 1 /\ waiting # <<>>
    THEN Append(new_order, LegacyBlankSong) \o waiting
    ELSE new_order \o waiting

\* with keep_order the blank and the song are appended and start_page stays
legacy_reorder_head(start_page, s, new_order, waiting, keep) ==
    IF start_page % 2 = 0
    THEN [start_page |-> start_page + SumPages(waiting) + s.pages,
          new_order  |-> Append(new_order \o waiting, s),
          waiting    |-> <<>>]
    ELSE IF s.pages % 2 = 0
    THEN IF keep
         THEN [start_page |-> start_page,
               new_order  |-> Append(Append(new_order, LegacyBlankSong), s),
               waiting    |-> waiting]
         ELSE [start_page |-> start_page,
               new_order  |-> new_order,
               waiting    |-> Append(waiting, s)]
    ELSE [start_page |-> start_page + s.pages,
          new_order  |-> Append(new_order, s),
          waiting    |-> waiting]

RECURSIVE legacy_reorder(_, _, _, _, _)
legacy_reorder(start_page, old, new_order, waiting, keep) ==
    IF old = <<>>
    THEN legacy_reorder_done(start_page, new_order, waiting)
    ELSE LET r == legacy_reorder_head(start_page, old[1], new_order, waiting, keep)
         IN  legacy_reorder(r.start_page, Tail(old), r.new_order, r.waiting, keep)

(***************************************************************************)
(* reorder called without new_order and waiting, in either script.  The    *)
(* defaults new_order=[] and waiting=[] are two list objects made when the *)
(* function is defined: every call that leaves the arguments out works on  *)
(* these same two lists.  new_order is never rebound, so all that a call   *)
(* appends to it stays in the default list; waiting is rebound to a new    *)
(* list by the first level that finds an even page, so the default list    *)
(* keeps what was appended to it before that.                              *)
(***************************************************************************)
\* one level of the recursion, for old[0] = s; r = [start_page, new_order,
\* waiting, shared, default_waiting], shared telling that waiting is still
\* the default list
default_head(r, s, keep, leg) ==
    LET h == IF leg
             THEN legacy_reorder_head(r.start_page, s, r.new_order, r.waiting, keep)
             ELSE reorder_head(r.start_page, s, r.new_order, r.waiting, keep)
        still == r.shared /\ r.start_page % 2 = 1
    IN  [start_page |-> h.start_page,
         new_order |-> h.new_order,
         waiting |-> h.waiting,
         shared |-> still,
         default_waiting |-> IF still THEN h.waiting ELSE r.default_waiting]

RECURSIVE default_levels(_, _, _, _, _)
default_levels(old, i, r, keep, leg) ==
    IF i > Len(old) THEN r
    ELSE default_levels(old, i + 1, default_head(r, old[i], keep, leg), keep, leg)

\* book.reorder(start_page) when the default lists hold dn and dw: the value
\* left in self.songs and what the default lists hold afterwards
reorder_with_defaults(start_page, old, dn, dw, keep, leg) ==
    LET r == default_levels(old, 1,
                            [start_page |-> start_page, new_order |-> dn,
                             waiting |-> dw, shared |-> TRUE,
                             default_waiting |-> dw], keep, leg)
        blank == IF leg THEN LegacyBlankSong ELSE BlankSong
        final == IF r.start_page % 2 = 1 /\ r.waiting # <<>>
                 THEN Append(r.new_order, blank)
                 ELSE r.new_order
    IN  [songs |-> final \o r.waiting,
         default_new_order |-> final,
         default_waiting |-> r.default_waiting]

(***************************************************************************)
(* TOC.__init__ of src/chordprobook/books/__init__.py.  An entry of the    *)
(* contents is [kind, id, page]: the title of a set or of a song and the   *)
(* page number printed next to it.                                         *)
(***************************************************************************)
ideal_songs_per_page == 40
max_songs_per_page == 50

\* int(math.ceil(a / b)) for a >= 0 and b > 0
ceil_div(a, b) == (a + b - 1) \div b

Min(a, b) == IF a < b THEN a ELSE b

\* iterable[i:j] of Python for 0 <= i <= j: both ends are cut at the length
Slice(iterable, i, j) ==
    SubSeq(iterable, Min(i, Len(iterable)) + 1, Min(j, Len(iterable)))

\* chunked whose chunk size is rounded down
chunked_rounds_down(iterable, n) ==
    LET chunksize == Len(iterable) \div n
    IN  [k \in 1..n |-> Slice(iterable, (k - 1) * chunksize,
                                         (k - 1) * chunksize + chunksize)]

\* chunked(iterable, n): n slices of int(math.ceil(len(iterable) / n)) items
chunked(iterable, n) ==
    LET chunksize == ceil_div(Len(iterable), n)
    IN  [k \in 1..n |-> Slice(iterable, (k - 1) * chunksize,
                                         (k - 1) * chunksize + chunksize)]

\* len(book.sets) + len([i for i in book.songs if not i.blank])
toc_num_entries(book_songs, book_sets) ==
    Len(book_sets) + Len(SelectSeq(book_songs, NotBlank))

toc_target_num_pages(num_entries) ==
    IF num_entries > max_songs_per_page
    THEN ceil_div(num_entries, ideal_songs_per_page)
    ELSE 1

\* for song in book.sets: the page counter moves on for every set
RECURSIVE toc_sets(_, _)
toc_sets(book_sets, page_count) ==
    IF book_sets = <<>> THEN <<>>
    ELSE (IF ~book_sets[1].blank
          THEN <<[kind |-> "set", id |-> book_sets[1].id, page |-> page_count]>>
          ELSE <<>>)
         \o toc_sets(Tail(book_sets), page_count + book_sets[1].pages)

\* the parity guard: a blank goes in front of the songs of a book with sets
toc_guard(book_sets, target) ==
    Len(book_sets) > 0 /\ (target + Len(book_sets)) % 2 = 0

\* toc_song that gives a blank an entry too
toc_song_lists_blanks(acc, song) ==
    [entries    |-> Append(acc.entries,
                           [kind |-> "song", id |-> song.id,
                            page |-> acc.page_count]),
     page_count |-> acc.page_count + song.pages]

\* the body of "for song in book.songs": a song that is not blank gets an
\* entry and moves the page counter on; acc = [entries, page_count]
toc_song(acc, song) ==
    IF ~song.blank
    THEN [entries    |-> Append(acc.entries,
                                [kind |-> "song", id |-> song.id,
                                 page |-> acc.page_count]),
          page_count |-> acc.page_count + song.pages]
    ELSE acc

\* the passes of the loop for book_songs[lo..hi], in order, composed by halves
RECURSIVE toc_songs_loop(_, _, _, _)
toc_songs_loop(book_songs, lo, hi, acc) ==
    IF lo > hi THEN acc
    ELSE IF lo = hi THEN toc_song(acc, book_songs[lo])
    ELSE LET mid == (lo + hi) \div 2
             left == toc_songs_loop(book_songs, lo, mid, acc)
         IN  IF Known(left)
             THEN toc_songs_loop(book_songs, mid + 1, hi, left)
             ELSE left

\* for song in book.songs: the entries of the songs
toc_songs(book_songs, page_count) ==
    toc_songs_loop(book_songs, 1, Len(book_songs),
                   [entries |-> <<>>, page_count |-> page_count]).entries

\* TOC(book, start_page): the new book.songs, TOC.target_num_pages, TOC.pages
TOC(book_songs, book_sets, start_page) ==
    LET num_entries == toc_num_entries(book_songs, book_sets)
        target == toc_target_num_pages(num_entries)
        after_sets == start_page + target + SumPages(book_sets)
        guard == toc_guard(book_sets, target)
        new_songs == IF guard THEN <<BlankSong>> \o book_songs ELSE book_songs
        page_count == IF guard THEN after_sets + 1 ELSE after_sets
        entries == toc_sets(book_sets, start_page + target)
                   \o toc_songs(new_songs, page_count)
    IN  [songs |-> new_songs,
         target_num_pages |-> target,
         pages |-> IF num_entries > max_songs_per_page
                   THEN chunked(entries, target)
                   ELSE <<entries>>]

\* cp_song.format: self.pages = 1
song_format(s) == [s EXCEPT !.pages = 1]

(***************************************************************************)
(* transposer of src/chordprobook.py.  A note is the sequence of its       *)
(* characters.                                                             *)
(***************************************************************************)
NoteNames ==
    {<<"C">>, <<"C", "#">>, <<"D", "b">>, <<"D">>, <<"E", "b">>, <<"D", "#">>,
     <<"E">>, <<"F">>, <<"F", "#">>, <<"G", "b">>, <<"G">>, <<"A", "b">>,
     <<"G", "#">>, <<"A">>, <<"B", "b">>, <<"A", "#">>, <<"B">>}

\* transposer.__note_indicies
note_indicies(n) ==
    CASE n = <<"C">> -> 0
      [] n = <<"C", "#">> -> 1
      [] n = <<"D", "b">> -> 1
      [] n = <<"D">> -> 2
      [] n = <<"E", "b">> -> 3
      [] n = <<"D", "#">> -> 3
      [] n = <<"E">> -> 4
      [] n = <<"F">> -> 5
      [] n = <<"F", "#">> -> 6
      [] n = <<"G", "b">> -> 6
      [] n = <<"G">> -> 7
      [] n = <<"A", "b">> -> 8
      [] n = <<"G", "#">> -> 8
      [] n = <<"A">> -> 9
      [] n = <<"B", "b">> -> 10
      [] n = <<"A", "#">> -> 10
      [] n = <<"B">> -> 11

\* transposer.__notes, indexed from 0 in the source
notes ==
    <<<<"C">>, <<"C", "#">>, <<"D">>, <<"E", "b">>, <<"E">>, <<"F">>,
      <<"F", "#">>, <<"G">>, <<"A", "b">>, <<"A">>, <<"B", "b">>, <<"B">>>>

\* what a call that raises returns in the model
Raised == <<"!", "NameError">>

\* transpose_note that is one off in its index into __notes
transpose_note_off_by_one(n, off) ==
    IF n \in NoteNames
    THEN notes[((note_indicies(n) + off + 1) % 12) + 1]
    ELSE Raised

\* transposer(off).transpose_note(n); a note that is not in the table makes
\* __getNoteIndex evaluate the undefined name none
transpose_note(n, off) ==
    IF n \in NoteNames
    THEN notes[((note_indicies(n) + off) % 12) + 1]
    ELSE Raised

\* the letters the pattern of transpose_chord starts a token with, [A-G]
RootLetters == {"A", "B", "C", "D", "E", "F", "G"}

\* the characters the pattern lets follow the letter, (\#|b)
Accidentals == {"#", "b"}

\* the token re.sub finds at position i of s, which holds a root letter:
\* the letter and, the pattern being greedy, the accidental after it
token_at(s, i) ==
    IF i < Len(s) /\ s[i + 1] \in Accidentals
    THEN <<s[i], s[i + 1]>>
    ELSE <<s[i]>>

\* a scan that takes the letter alone as the token
RECURSIVE sub_notes_letter_only(_, _, _)
sub_notes_letter_only(s, i, off) ==
    IF i > Len(s) THEN <<>>
    ELSE IF s[i] \in RootLetters
    THEN LET new == transpose_note(<<s[i]>>, off)
             rest == sub_notes_letter_only(s, i + 1, off)
         IN  IF new = Raised \/ rest = Raised THEN Raised ELSE new \o rest
    ELSE LET rest == sub_notes_letter_only(s, i + 1, off)
         IN  IF rest = Raised THEN Raised ELSE <<s[i]>> \o rest

\* re.sub("([A-G](\#|b)?)", lambda x: self.transpose_note(x.group()), s)
\* from position i on: tokens are found left to right, each is replaced by
\* what transpose_note returns, the characters between them are copied; an
\* exception in the lambda ends the whole call
RECURSIVE sub_notes(_, _, _)
sub_notes(s, i, off) ==
    IF i > Len(s) THEN <<>>
    ELSE IF s[i] \in RootLetters
    THEN LET tok == token_at(s, i)
             new == transpose_note(tok, off)
             rest == sub_notes(s, i + Len(tok), off)
         IN  IF new = Raised \/ rest = Raised THEN Raised ELSE new \o rest
    ELSE LET rest == sub_notes(s, i + 1, off)
         IN  IF rest = Raised THEN Raised ELSE <<s[i]>> \o rest

\* transpose_chord whose pattern is [A-G] alone
transpose_chord_letter_only(chord_string, off) ==
    sub_notes_letter_only(chord_string, 1, off)

\* transposer(off).transpose_chord(chord_string)
transpose_chord(chord_string, off) == sub_notes(chord_string, 1, off)

(***************************************************************************)
(* The books the operations start from.                                    *)
(***************************************************************************)
\* the song lists of n songs, song i being the one of id i
SongLists(n) == [1..n -> 1..MaxPages]

\* head songs of any page count followed by fill songs of one page
MakeSongs(head, fill) ==
    [i \in 1..(Len(head) + fill) |->
        IF i <= Len(head) THEN Song(i, head[i]) ELSE Song(i, 1)]

MakeSets(n) == [i \in 1..n |-> SetSong(i)]

NoTOC == <<>>

\* cp_song_book.contents before format has set it
NoContents == <<>>

\* TOC.format(): one block of markup per contents page gone through, each
\* holding the entries of its page; the return statement stands inside the
\* loop over self.pages, so the loop is left at the end of its first round
\* (TOC.pages is never empty: it has target_num_pages >= 1 pages)
toc_format(pages) ==
    IF pages = <<>> THEN <<>> ELSE <<pages[1]>>

\* the default lists of reorder as the definition of the function leaves them
DefaultsFresh ==
    /\ default_new_order = <<>>
    /\ default_waiting = <<>>

TransposerIdle ==
    /\ note = <<"C">>
    /\ offset = 0
    /\ out1 = <<>>
    /\ out2 = <<>>
    /\ tpc = 0

(***************************************************************************)
(* Text.  A string is the sequence of its characters; the operators below  *)
(* are the str methods the program calls.                                  *)
(***************************************************************************)
\* the characters str.strip() removes, as far as they occur in a line
Whitespace == {" ", "\t"}

\* the letters str.lower() changes, each with what it becomes
CasePairs ==
    {
     <<"A", "a">>, <<"B", "b">>, <<"C", "c">>, <<"D", "d">>, <<"E", "e">>,
     <<"F", "f">>, <<"G", "g">>, <<"H", "h">>, <<"I", "i">>, <<"J", "j">>,
     <<"K", "k">>, <<"L", "l">>, <<"M", "m">>, <<"N", "n">>, <<"O", "o">>,
     <<"P", "p">>, <<"Q", "q">>, <<"R", "r">>, <<"S", "s">>, <<"T", "t">>,
     <<"U", "u">>, <<"V", "v">>, <<"W", "w">>, <<"X", "x">>, <<"Y", "y">>,
     <<"Z", "z">>}

LowerChar(c) ==
    IF \E p \in CasePairs : p[1] = c
    THEN (CHOOSE p \in CasePairs : p[1] = c)[2]
    ELSE c

\* s.lower()
lower(s) == [i \in 1..Len(s) |-> LowerChar(s[i])]

\* s.lstrip()
RECURSIVE lstrip(_)
lstrip(s) ==
    IF s # <<>> /\ s[1] \in Whitespace THEN lstrip(Tail(s)) ELSE s

\* s.rstrip()
RECURSIVE rstrip(_)
rstrip(s) ==
    IF s # <<>> /\ s[Len(s)] \in Whitespace
    THEN rstrip(SubSeq(s, 1, Len(s) - 1))
    ELSE s

\* s.strip()
strip(s) == rstrip(lstrip(s))

\* s.startswith(p) and s.endswith(p)
startswith(s, p) == Len(s) >= Len(p) /\ SubSeq(s, 1, Len(p)) = p

endswith(s, p) ==
    Len(s) >= Len(p) /\ SubSeq(s, Len(s) - Len(p) + 1, Len(s)) = p

\* s.find(c, i) for a character c, counted from 1; 0 when c is not in s
\* from position i on
find_from(s, c, i) ==
    IF \E k \in i..Len(s) : s[k] = c
    THEN CHOOSE k \in i..Len(s) : s[k] = c /\ \A m \in i..(k - 1) : s[m] # c
    ELSE 0

\* s.partition(c) for a character c: what is before the first c, the
\* separator found, what is after it
partition(s, c) ==
    LET k == find_from(s, c, 1)
    IN  IF k = 0 THEN <<s, <<>>, <<>>>>
        ELSE <<SubSeq(s, 1, k - 1), <<c>>, SubSeq(s, k + 1, Len(s))>>

\* s.partition(c) that splits at the last c
partition_at_last(s, c) ==
    LET k == CHOOSE j \in 0..Len(s) :
                 /\ j > 0 => s[j] = c
                 /\ \A m \in (j + 1)..Len(s) : s[m] # c
    IN  IF k = 0 THEN <<s, <<>>, <<>>>>
        ELSE <<SubSeq(s, 1, k - 1), <<c>>, SubSeq(s, k + 1, Len(s))>>

(***************************************************************************)
(* Directives.                                                             *)
(***************************************************************************)
\* directive.directives: each name or alias with the type it stands for
directives ==
    {
    <<<<"t">>, "title">>,
     <<<<"t", "i", "t", "l", "e">>, "title">>,
     <<<<"s", "t">>, "subtitle">>,
     <<<<"s", "u", "b", "t", "i", "t", "l", "e">>, "subtitle">>,
     <<<<"a", "r", "t", "i", "s", "t">>, "artist">>,
     <<<<"c", "o", "m", "p", "o", "s", "e", "r">>, "composer">>,
     <<<<"l", "y", "r", "i", "c", "i", "s", "t">>, "lyricist">>,
     <<<<"t", "i", "m", "e">>, "time">>,
     <<<<"t", "e", "m", "p", "o">>, "tempo">>,
     <<<<"k", "e", "y">>, "key">>,
     <<<<"s", "t", "a", "r", "t", "_", "o", "f", "_", "c", "h", "o", "r", "u", "s">>, "start_chorus">>,
     <<<<"s", "o", "c">>, "start_chorus">>,
     <<<<"e", "n", "d", "_", "o", "f", "_", "c", "h", "o", "r", "u", "s">>, "end_chorus">>,
     <<<<"e", "o", "c">>, "end_chorus">>,
     <<<<"s", "t", "a", "r", "t", "_", "o", "f", "_", "t", "a", "b">>, "start_tab">>,
     <<<<"s", "o", "t">>, "start_tab">>,
     <<<<"e", "n", "d", "_", "o", "f", "_", "t", "a", "b">>, "end_tab">>,
     <<<<"e", "o", "t">>, "end_tab">>,
     <<<<"s", "t", "a", "r", "t", "_", "o", "f", "_", "b", "r", "i", "d", "g", "e">>, "start_bridge">>,
     <<<<"s", "o", "b">>, "start_bridge">>,
     <<<<"e", "n", "d", "_", "o", "f", "_", "b", "r", "i", "d", "g", "e">>, "end_bridge">>,
     <<<<"e", "o", "b">>, "end_bridge">>,
     <<<<"t", "r", "a", "n", "s", "p", "o", "s", "e">>, "transpose">>,
     <<<<"t", "r">>, "transpose">>,
     <<<<"n", "e", "w", "_", "p", "a", "g", "e">>, "new_page">>,
     <<<<"n", "p">>, "new_page">>,
     <<<<"d", "e", "f", "i", "n", "e">>, "define">>,
     <<<<"g", "r", "i", "d", "s">>, "grids">>,
     <<<<"c", "o", "m", "m", "e", "n", "t">>, "comment">>,
     <<<<"c">>, "comment">>,
     <<<<"i", "n", "s", "t", "r", "u", "m", "e", "n", "t">>, "instrument">>,
     <<<<"t", "u", "n", "i", "n", "g">>, "tuning">>,
     <<<<"d", "i", "r", "s">>, "dirs">>,
     <<<<"f", "i", "l", "e", "s">>, "files">>,
     <<<<"v", "e", "r", "s", "i", "o", "n">>, "version">>,
     <<<<"p", "a", "g", "e", "_", "i", "m", "a", "g", "e">>, "page_image">>,
     <<<<"p", "i">>, "page_image">>}

DirectiveNames == {d[1] : d \in directives}

\* directive.directives[name]
directive_type(name) == (CHOOSE d \in directives : d[1] = name)[2]

\* self.type = None
None == "None"

\* the value of an attribute that was never assigned
Unset == <<"!", "unset">>

\* directive(line) that splits the text between the braces at its last colon
directive_splits_at_last_colon(line) ==
    LET l == strip(line)
    IN  IF startswith(l, <<"{">>) /\ endswith(l, <<"}">>)
        THEN LET parts == partition_at_last(SubSeq(l, 2, Len(l) - 1), ":")
                 name == lower(parts[1])
             IN  IF name \in DirectiveNames
                 THEN [type |-> directive_type(name), value |-> strip(parts[3])]
                 ELSE [type |-> None, value |-> parts[3]]
        ELSE [type |-> None, value |-> Unset]

\* directive(line): the type and the value of the object built
directive(line) ==
    LET l == strip(line)
    IN  IF startswith(l, <<"{">>) /\ endswith(l, <<"}">>)
        THEN LET parts == partition(SubSeq(l, 2, Len(l) - 1), ":")
                 name == lower(parts[1])
             IN  IF name \in DirectiveNames
                 THEN [type |-> directive_type(name), value |-> strip(parts[3])]
                 ELSE [type |-> None, value |-> parts[3]]
        ELSE [type |-> None, value |-> Unset]

(***************************************************************************)
(* Songs as text: cp_song of books/__init__.py.  The module                *)
(* chordprobook.chords is outside the sources modelled here; its           *)
(* transposer is modelled as the specification describes it.               *)
(***************************************************************************)
NL == "\n"

Letters == {p[1] : p \in CasePairs} \cup {p[2] : p \in CasePairs}

DigitChars == <<"0", "1", "2", "3", "4", "5", "6", "7", "8", "9">>

Digits == {DigitChars[i] : i \in 1..10}

\* the characters \w matches
WordChars == Letters \cup Digits \cup {"_"}

\* s.split(c) for a character c
RECURSIVE split(_, _)
split(s, c) ==
    LET k == find_from(s, c, 1)
    IN  IF k = 0 THEN <<s>>
        ELSE <<SubSeq(s, 1, k - 1)>> \o split(SubSeq(s, k + 1, Len(s)), c)

\* c.join(parts) for a character c
RECURSIVE join(_, _)
join(parts, c) ==
    IF parts = <<>> THEN <<>>
    ELSE IF Len(parts) = 1 THEN parts[1]
    ELSE parts[1] \o <<c>> \o join(Tail(parts), c)

\* chords.transposer(off).transpose_note(n): the canonical spelling of the
\* shifted pitch class; a note that is not in the table is returned as it is
chords_transpose_note(n, off) ==
    IF n \in NoteNames
    THEN notes[((note_indicies(n) + off) % 12) + 1]
    ELSE n

\* chords.transposer(off).transpose_chord(s) from position i on: only the
\* root-note tokens are replaced
RECURSIVE chords_sub_notes(_, _, _)
chords_sub_notes(s, i, off) ==
    IF i > Len(s) THEN <<>>
    ELSE IF s[i] \in RootLetters
    THEN chords_transpose_note(token_at(s, i), off)
             \o chords_sub_notes(s, i + Len(token_at(s, i)), off)
    ELSE <<s[i]>> \o chords_sub_notes(s, i + 1, off)

chords_transpose_chord(s, off) == chords_sub_notes(s, 1, off)

\* re.sub("(\w)(\[[^\]]*?\])( |$)", "\\1 \\2\\3", s) from position i on: a
\* chord marker that follows a word character and ends a word gets a space
\* in front of it
RECURSIVE space_before_chord(_, _)
space_before_chord(s, i) ==
    IF i > Len(s) THEN <<>>
    ELSE LET j == IF i < Len(s) /\ s[i + 1] = "[" /\ s[i] \in WordChars
                  THEN find_from(s, "]", i + 2)
                  ELSE 0
         IN  IF j > 0 /\ j = Len(s)
             THEN <<s[i], " ">> \o SubSeq(s, i + 1, j)
             ELSE IF j > 0 /\ s[j + 1] = " "
             THEN <<s[i], " ">> \o SubSeq(s, i + 1, j + 1)
                      \o space_before_chord(s, j + 2)
             ELSE <<s[i]>> \o space_before_chord(s, i + 1)

\* re.sub("(^| )(\[[^\]]*?\])(\w)", "\\1\\2 \\3", s) from position i on: a
\* chord marker that begins a word gets a space behind it
RECURSIVE space_after_chord(_, _)
space_after_chord(s, i) ==
    IF i > Len(s) THEN <<>>
    ELSE LET open == IF i = 1 /\ s[1] = "[" THEN 1
                     ELSE IF s[i] = " " /\ i < Len(s) /\ s[i + 1] = "["
                     THEN i + 1
                     ELSE 0
             j == IF open > 0 THEN find_from(s, "]", open + 1) ELSE 0
         IN  IF j > 0 /\ j < Len(s) /\ s[j + 1] \in WordChars
             THEN SubSeq(s, i, j) \o <<" ", s[j + 1]>>
                      \o space_after_chord(s, j + 2)
             ELSE <<s[i]>> \o space_after_chord(s, i + 1)

normalize_chord_markup(line) ==
    space_after_chord(space_before_chord(line, 1), 1)

\* s.replace("][", "] [") from position i on
RECURSIVE replace_adjacent(_, _)
replace_adjacent(s, i) ==
    IF i > Len(s) THEN <<>>
    ELSE IF s[i] = "]" /\ i < Len(s) /\ s[i + 1] = "["
    THEN <<"]", " ", "[">> \o replace_adjacent(s, i + 2)
    ELSE <<s[i]>> \o replace_adjacent(s, i + 1)

chord_bracket_open == <<"<", "s", "p", "a", "n", " ", "c", "l", "a", "s", "s", "=", "\"", "c", "h", "o", "r", "d", "-", "b", "r", "a", "c", "k", "e", "t", "\"", ">">>

span_close == <<"<", "/", "s", "p", "a", "n", ">">>

\* re.sub('\[(.*?)\]', '<span class="chord-bracket">[\\1]</span>', s) from
\* position i on
RECURSIVE highlight_chords(_, _)
highlight_chords(s, i) ==
    LET open == IF i > Len(s) THEN 0 ELSE find_from(s, "[", i)
        j == IF open > 0 THEN find_from(s, "]", open + 1) ELSE 0
    IN  IF j = 0 THEN SubSeq(s, i, Len(s))
        ELSE SubSeq(s, i, open - 1) \o chord_bracket_open
                 \o SubSeq(s, open, j) \o span_close
                 \o highlight_chords(s, j + 1)

\* re.sub("^\.(.*?) (.*)", "<span class='\\1'>\\1 \\2</span>", s) for an s
\* that starts with "."
micro_markup(s) ==
    LET k == find_from(s, " ", 2)
    IN  IF k = 0 THEN s
        ELSE <<"<", "s", "p", "a", "n", " ", "c", "l", "a", "s", "s", "=", "'">> \o SubSeq(s, 2, k - 1) \o <<"'", ">">>
                 \o SubSeq(s, 2, k - 1) \o <<" ">> \o SubSeq(s, k + 1, Len(s))
                 \o span_close

\* content_line that wraps the chords of a line of a tab block too
content_line_wraps_in_tabs(line, in_tab) ==
    LET normal == normalize_chord_markup(line)
        marked == highlight_chords(strip(replace_adjacent(normal, 1)), 1)
    IN  IF startswith(marked, <<".">>) THEN micro_markup(marked)
        ELSE marked

\* what parse makes of a line that is neither a directive nor a comment
content_line(line, in_tab) ==
    LET normal == normalize_chord_markup(line)
        marked == highlight_chords(strip(replace_adjacent(normal, 1)), 1)
    IN  IF in_tab THEN normal
        ELSE IF startswith(marked, <<".">>) THEN micro_markup(marked)
        ELSE marked

\* int(x) is defined: x is, but for white space around it, an optional sign
\* and one or more digits
int_digits(x) ==
    LET t == strip(x)
    IN  IF t # <<>> /\ t[1] \in {"+", "-"} THEN Tail(t) ELSE t

int_defined(x) ==
    /\ int_digits(x) # <<>>
    /\ \A i \in 1..Len(int_digits(x)) : int_digits(x)[i] \in Digits

DigitValue(c) == CHOOSE d \in 0..9 : DigitChars[d + 1] = c

RECURSIVE digits_value(_)
digits_value(ds) ==
    IF ds = <<>> THEN 0
    ELSE 10 * digits_value(SubSeq(ds, 1, Len(ds) - 1)) + DigitValue(ds[Len(ds)])

\* int(x) where it is defined
int(x) ==
    IF strip(x)[1] = "-" THEN 0 - digits_value(int_digits(x))
    ELSE digits_value(int_digits(x))

\* what a constructor that raises ValueError leaves in the model
RaisedValueError == [raised |-> "ValueError"]

\* no cp_song object
NoSong == [raised |-> "nothing built"]

\* None in an attribute that otherwise holds a string
NoString == <<"!", "None">>

\* Python's test of a string or None in a condition
Truthy(v) == v # NoString /\ v # <<>>

meta_block(class, label, value) ==
    <<"<", "d", "i", "v", " ", "c", "l", "a", "s", "s", "=", "\"", "m", "e", "t", "a", " ">> \o class \o <<"\"", ">", "<", "s", "p", "a", "n", " ", "c", "l", "a", "s", "s", "=", "\"", "k", "e", "y", "\"", ">">> \o label
        \o <<":", "<", "/", "s", "p", "a", "n", ">", " ", "<", "s", "p", "a", "n", " ", "c", "l", "a", "s", "s", "=", "\"", "v", "a", "l", "u", "e", "\"", ">">> \o value \o <<"<", "/", "s", "p", "a", "n", ">", "<", "/", "d", "i", "v", ">">>

MetaLabels ==
    {<<"artist", <<"a", "r", "t", "i", "s", "t">>, <<"A", "r", "t", "i", "s", "t">>>>,
     <<"composer", <<"c", "o", "m", "p", "o", "s", "e", "r">>, <<"C", "o", "m", "p", "o", "s", "e", "r">>>>,
     <<"lyricist", <<"l", "y", "r", "i", "c", "i", "s", "t">>, <<"L", "y", "r", "i", "c", "i", "s", "t">>>>,
     <<"time", <<"t", "i", "m", "e">>, <<"T", "i", "m", "e">>>>,
     <<"tempo", <<"t", "e", "m", "p", "o">>, <<"T", "e", "m", "p", "o">>>>}

\* the back quote, which cannot be written in a string here
BackQuote == "back quote"

\* the line that opens and closes preformatted text in Markdown
tab_fence == <<BackQuote, BackQuote, BackQuote, NL>>

\* the state parse starts its loop in, for a song built with transpose
parse_start(transpose) ==
    [new_text |-> <<>>, in_tab |-> FALSE, in_block |-> FALSE,
     title |-> <<>>, original_key |-> NoString, key |-> NoString, pages |-> 1,
     standard_transpositions |-> <<0>>, transposer |-> transpose,
     raised |-> FALSE]

\* the comment branch of parse that leaves an open block open
parse_comment_keeps_block(st, value) ==
    LET dotted == startswith(value, <<".">>)
        val == IF dotted THEN Tail(value) ELSE value
        classs == IF dotted THEN split(val, " ")[1] ELSE <<>>
        opened == IF classs # <<>>
                  THEN st.new_text \o <<"<", "d", "i", "v", " ", "c", "l", "a", "s", "s", "=", "'">> \o classs \o <<"'", ">">>
                  ELSE st.new_text
    IN  [st EXCEPT !.in_block = @ \/ classs # <<>>,
                   !.new_text = opened \o <<"\n", "*", "*">> \o val \o <<"*", "*", "\n">>]

\* the comment branch of parse
parse_comment(st, value) ==
    LET closed == IF st.in_block THEN st.new_text \o <<"<", "/", "d", "i", "v", ">">> ELSE st.new_text
        dotted == startswith(value, <<".">>)
        val == IF dotted THEN Tail(value) ELSE value
        classs == IF dotted THEN split(val, " ")[1] ELSE <<>>
        opened == IF classs # <<>>
                  THEN closed \o <<"<", "d", "i", "v", " ", "c", "l", "a", "s", "s", "=", "'">> \o classs \o <<"'", ">">>
                  ELSE closed
    IN  [st EXCEPT !.in_block = classs # <<>>,
                   !.new_text = opened \o <<"\n", "*", "*">> \o val \o <<"*", "*", "\n">>]

\* the branches of parse that close an open block: what is in new_text then
block_closed(st) ==
    IF st.in_block THEN st.new_text \o <<"<", "/", "d", "i", "v", ">", "\n">> ELSE st.new_text

\* the transpose branch of parse
parse_transpose(st, value) ==
    LET trans == split(value, " ")
    IN  IF \A i \in 1..Len(trans) : int_defined(trans[i])
        THEN [st EXCEPT !.standard_transpositions =
                            @ \o [i \in 1..Len(trans) |-> int(trans[i])]]
        ELSE [st EXCEPT !.raised = TRUE]

\* the key branch of parse that tests original_key against None
parse_key_tests_none(st, line, value) ==
    IF st.original_key # NoString
    THEN [st EXCEPT !.new_text = @ \o line \o <<NL>>]
    ELSE [st EXCEPT !.original_key = value,
                    !.key = chords_transpose_chord(value, st.transposer)]

\* the key branch of parse
parse_key(st, line, value) ==
    IF Truthy(st.original_key)
    THEN [st EXCEPT !.new_text = @ \o line \o <<NL>>]
    ELSE [st EXCEPT !.original_key = value,
                    !.key = chords_transpose_chord(value, st.transposer)]

\* the title branch of parse that also writes the title into the content
parse_title_in_content(st, value) ==
    [st EXCEPT !.title = @ \o value, !.new_text = @ \o value \o <<NL>>]

\* the title branch of parse
parse_title(st, value) == [st EXCEPT !.title = @ \o value]

\* the new_page branch of parse
parse_new_page(st) ==
    [st EXCEPT !.new_text = block_closed(st) \o <<"\n", "<", "!", "-", "-", " ", "n", "e", "w", "_", "p", "a", "g", "e", " ", "-", "-", ">", "\n">>,
               !.in_block = FALSE,
               !.pages = @ + 1]

\* one turn of the loop of parse: line is dealt with in state st
parse_line(st, line) ==
    LET dir == directive(line)
        t == dir.type
        v == dir.value
    IN  IF t = None
        THEN IF startswith(line, <<"#">>) THEN st
             ELSE [st EXCEPT !.new_text =
                                 @ \o content_line(line, st.in_tab) \o <<NL>>]
        ELSE IF t = "comment" THEN parse_comment(st, v)
        ELSE IF t = "title" THEN parse_title(st, v)
        ELSE IF t = "subtitle"
        THEN [st EXCEPT !.new_text = @ \o <<"\n", "*", "*">> \o v \o <<"*", "*", "\n">>]
        ELSE IF \E m \in MetaLabels : m[1] = t
        THEN LET m == CHOOSE m \in MetaLabels : m[1] = t
             IN  [st EXCEPT !.new_text = @ \o meta_block(m[2], m[3], v)]
        ELSE IF t = "key" THEN parse_key(st, line, v)
        ELSE IF t = "transpose" THEN parse_transpose(st, v)
        ELSE IF t = "start_chorus"
        THEN [st EXCEPT !.new_text = @ \o <<"<", "b", "l", "o", "c", "k", "q", "u", "o", "t", "e", " ", "c", "l", "a", "s", "s", "=", "'", "c", "h", "o", "r", "u", "s", "'", ">", "\n">>]
        ELSE IF t = "start_bridge"
        THEN [st EXCEPT !.new_text = @ \o <<"<", "b", "l", "o", "c", "k", "q", "u", "o", "t", "e", " ", "c", "l", "a", "s", "s", "=", "'", "b", "r", "i", "d", "g", "e", "'", ">", "\n">>]
        ELSE IF t \in {"end_chorus", "end_bridge"}
        THEN [st EXCEPT !.new_text = @ \o <<"<", "/", "b", "l", "o", "c", "k", "q", "u", "o", "t", "e", ">", "\n">>]
        ELSE IF t = "start_tab" /\ ~st.in_tab
        THEN [st EXCEPT !.in_tab = TRUE, !.new_text = @ \o tab_fence]
        ELSE IF t = "end_tab" /\ st.in_tab
        THEN [st EXCEPT !.in_tab = FALSE, !.new_text = @ \o tab_fence]
        ELSE IF t = "new_page" THEN parse_new_page(st)
        ELSE IF t = "page_image"
        THEN [st EXCEPT !.new_text = block_closed(st) \o <<"<", "i", "m", "g", " ", "s", "r", "c", "=", "'", "f", "i", "l", "e", ":", "/", "/", ".", "/">>
                                         \o v \o <<"'", " ", "w", "i", "d", "t", "h", "=", "'", "6", "8", "0", "'", "/", ">">>,
                        !.in_block = FALSE]
        ELSE st

\* the loop of parse over the lines from the i-th on; an exception ends it
RECURSIVE parse_lines(_, _, _)
parse_lines(st, lines, i) ==
    IF i > Len(lines) \/ st.raised THEN st
    ELSE parse_lines(parse_line(st, lines[i]), lines, i + 1)

\* positions of s, from p on, where "(.)\n(.)" finds its newline
line_ends(s, p) ==
    {k \in (p + 1)..(Len(s) - 1) :
        s[k] = NL /\ s[k - 1] # NL /\ s[k + 1] # NL}

\* re.sub("(.)\n(.)", "\\1    \\n\\2", s) from position p on: matches are
\* found left to right and do not overlap
RECURSIVE force_breaks(_, _)
force_breaks(s, p) ==
    IF line_ends(s, p) = {} THEN SubSeq(s, p, Len(s))
    ELSE LET k == CHOOSE k \in line_ends(s, p) :
                      \A m \in line_ends(s, p) : k <= m
         IN  SubSeq(s, p, k - 1) \o <<" ", " ", " ", " ", "\n">> \o <<s[k + 1]>>
                 \o force_breaks(s, k + 2)

\* cp_song.parse() on a song with the text song_text: the state its loop
\* ends in, text being self.text
parse(song_text, transpose) ==
    CHOOSE parsed \in
        {[st EXCEPT !.new_text = force_breaks(st.new_text, 1)] :
            st \in {parse_lines(parse_start(transpose), split(song_text, NL), 1)}} : TRUE

\* the title a song is given when none is handed to cp_song
DefaultTitle == <<"S", "o", "n", "g">>

\* cp_song(song_text, transpose=transpose): the fields of the object, or
\* the exception raised
cp_song(song_text, transpose) ==
    CHOOSE song \in
        {IF st.raised THEN RaisedValueError
         ELSE [blank |-> FALSE,
               text |-> st.new_text,
               key |-> st.key,
               pages |-> st.pages,
               original_key |-> st.original_key,
               transpose |-> transpose,
               transposer |-> transpose,
               standard_transpositions |-> st.standard_transpositions,
               title |-> IF st.title = <<>> THEN DefaultTitle ELSE st.title,
               md |-> <<>>,
               formatted_title |-> <<>>,
               notes_md |-> <<>>] :
            st \in {parse(song_text, transpose)}} : TRUE

\* get_key_string(): the song it leaves
get_key_string(s) ==
    IF Truthy(s.original_key) /\ s.transpose # 0
    THEN [s EXCEPT !.transposer = s.transpose,
                   !.key = chords_transpose_chord(s.original_key, s.transpose)]
    ELSE s

\* format_chord(chord) of cp_song.format, for a song without chord grids
\* that is not set in Nashville numbers
format_chord(s, chord) ==
    <<"[", "<", "s", "p", "a", "n", " ", "c", "l", "a", "s", "s", "=", "\"", "c", "h", "o", "r", "d", "\"", ">">>
        \o (IF s.transposer # 0
            THEN chords_transpose_chord(chord, s.transposer)
            ELSE chord)
        \o <<"<", "/", "s", "p", "a", "n", ">", "]">>

\* re.sub("\[(.*?)\]", lambda m: format_chord(m.group(1)), line) from
\* position i on
RECURSIVE format_chords(_, _, _)
format_chords(s, line, i) ==
    LET open == IF i > Len(line) THEN 0 ELSE find_from(line, "[", i)
        j == IF open > 0 THEN find_from(line, "]", open + 1) ELSE 0
    IN  IF j = 0 THEN SubSeq(line, i, Len(line))
        ELSE SubSeq(line, i, open - 1)
                 \o format_chord(s, SubSeq(line, open + 1, j - 1))
                 \o format_chords(s, line, j + 1)

\* one turn of the loop of cp_song.format: what line adds to the markdown
format_line(s, line) ==
    LET dir == directive(line)
    IN  IF dir.type = "key"
        THEN IF Truthy(s.original_key)
             THEN <<"\n", "#", "#", "#", " ", "C", "h", "a", "n", "g", "e", " ", "k", "e", "y", " ", "t", "o", " ">>
                      \o chords_transpose_chord(strip(dir.value), s.transposer)
                      \o <<NL>>
             ELSE <<>>
        ELSE format_chords(s, line, 1) \o <<NL>>

RECURSIVE format_lines(_, _, _)
format_lines(s, lines, i) ==
    IF i > Len(lines) THEN <<>>
    ELSE format_line(s, lines[i]) \o format_lines(s, lines, i + 1)

\* song.format(transpose=transpose, instrument_name=None), transpose = 0
\* standing for None as well: the song it leaves
cp_song_format(s, transpose) ==
    LET s1 == [s EXCEPT !.pages = 1,
                        !.transpose = IF transpose # 0 THEN transpose ELSE @]
        s2 == IF transpose # 0 /\ Truthy(s1.original_key)
              THEN [s1 EXCEPT !.key =
                        chords_transpose_chord(s1.original_key, s1.transposer)]
              ELSE s1
        s3 == get_key_string(s2)
        key_string == IF s3.key # NoString THEN <<"(">> \o s3.key \o <<")">> ELSE <<>>
    IN  [s3 EXCEPT !.md = format_lines(s3, split(s3.text, NL), 1),
                   !.formatted_title = s3.title \o <<" ">> \o key_string]

(***************************************************************************)
(* Setlists: cp_song_book.order_by_setlist of books/__init__.py.  The      *)
(* songs of a book are objects; heap holds the fields of every object and  *)
(* the lists of the book hold positions in heap, so that a copy and the    *)
(* song it was made from can be told apart.                                *)
(***************************************************************************)
\* s has sub at position i
has_at(s, sub, i) ==
    i + Len(sub) - 1 <= Len(s) /\ SubSeq(s, i, i + Len(sub) - 1) = sub

\* s.replace(old, new) from position i on
RECURSIVE replace_from(_, _, _, _)
replace_from(s, old, new, i) ==
    IF i > Len(s) THEN <<>>
    ELSE IF has_at(s, old, i) THEN new \o replace_from(s, old, new, i + Len(old))
    ELSE <<s[i]>> \o replace_from(s, old, new, i + 1)

replace(s, old, new) == replace_from(s, old, new, 1)

\* re.sub("\s+", " ", s) from position i on
RECURSIVE collapse_whitespace(_, _)
collapse_whitespace(s, i) ==
    IF i > Len(s) THEN <<>>
    ELSE IF s[i] \in Whitespace
    THEN IF i > 1 /\ s[i - 1] \in Whitespace THEN collapse_whitespace(s, i + 1)
         ELSE <<" ">> \o collapse_whitespace(s, i + 1)
    ELSE <<s[i]>> \o collapse_whitespace(s, i + 1)

\* where "{(tr|transpose): *(.*)}", case ignored, matches in text: the
\* position of its "{", the position where (.*) begins and the position of
\* the "}", which is the last of the text; all 0 when it does not match
tr_match(text) ==
    LET low == lower(text)
        after(i) == IF has_at(low, <<"{", "t", "r", ":">>, i) THEN i + 4
                    ELSE IF has_at(low, <<"{", "t", "r", "a", "n", "s", "p", "o", "s", "e", ":">>, i) THEN i + 11
                    ELSE 0
        starts == {i \in 1..Len(text) :
                      after(i) > 0 /\ \E j \in after(i)..Len(text) : text[j] = "}"}
    IN  IF starts = {} THEN [from |-> 0, value |-> 0, to |-> 0]
        ELSE LET i == CHOOSE i \in starts : \A m \in starts : i <= m
                 to == CHOOSE j \in after(i)..Len(text) :
                           text[j] = "}" /\ \A m \in (j + 1)..Len(text) : text[m] # "}"
                 value == CHOOSE v \in after(i)..to :
                              /\ \A m \in after(i)..(v - 1) : text[m] = " "
                              /\ v = to \/ text[v] # " "
             IN  [from |-> i, value |-> value, to |-> to]

\* extract_transposition(text): the text without its transpose directive
\* and the transpositions the directive names after 0; int(x) raises on what
\* is not an integer
extract_transposition(text) ==
    CHOOSE extracted \in
        {IF m.from = 0
         THEN [text |-> text, standard_transpositions |-> <<0>>, raised |-> FALSE]
         ELSE LET trans == split(SubSeq(text, m.value, m.to - 1), " ")
              IN  IF \A i \in 1..Len(trans) : int_defined(trans[i])
                  THEN [text |-> SubSeq(text, 1, m.from - 1)
                                     \o SubSeq(text, m.to + 1, Len(text)),
                        standard_transpositions |->
                            <<0>> \o [i \in 1..Len(trans) |-> int(trans[i])],
                        raised |-> FALSE]
                  ELSE [text |-> text, standard_transpositions |-> <<0>>, raised |-> TRUE] :
            m \in {tr_match(text)}} : TRUE

\* what ".*?" is in a compiled pattern
Wild == "any characters"

\* re.compile(restring) for a restring of letters, digits, spaces, ".*?"
\* and parentheses: it raises when the parentheses do not pair up
RECURSIVE paren_depth_ok(_, _, _)
paren_depth_ok(p, i, depth) ==
    IF i > Len(p) THEN depth = 0
    ELSE IF p[i] = "(" THEN paren_depth_ok(p, i + 1, depth + 1)
    ELSE IF p[i] = ")" THEN depth > 0 /\ paren_depth_ok(p, i + 1, depth - 1)
    ELSE paren_depth_ok(p, i + 1, depth)

re_compile_raises(restring) == ~paren_depth_ok(restring, 1, 0)

\* the compiled pattern: the characters to be found, Wild for each ".*?";
\* a group matches what is inside it, so its parentheses stand for nothing
RECURSIVE re_items(_, _)
re_items(p, i) ==
    IF i > Len(p) THEN <<>>
    ELSE IF has_at(p, <<".", "*", "?">>, i) THEN <<Wild>> \o re_items(p, i + 3)
    ELSE IF p[i] \in {"(", ")"} THEN re_items(p, i + 1)
    ELSE <<p[i]>> \o re_items(p, i + 1)

\* the items of a pattern from the k-th on match t from position j on
RECURSIVE re_match_here(_, _, _, _)
re_match_here(items, k, t, j) ==
    IF k > Len(items) THEN TRUE
    ELSE IF items[k] = Wild
    THEN \E j2 \in j..(Len(t) + 1) :
             /\ \A m \in j..(j2 - 1) : t[m] # NL
             /\ re_match_here(items, k + 1, t, j2)
    ELSE j <= Len(t) /\ t[j] = items[k] /\ re_match_here(items, k + 1, t, j + 1)

\* re.search(re.compile(restring), t) != None
re_search(restring, t) ==
    \E j \in 1..(Len(t) + 1) : re_match_here(re_items(restring, 1), 1, t, j)

\* restring = song_name.replace(" +", ".*?").lower(): str.replace looks for
\* the two characters " +"
restring_of(song_name) == lower(replace(song_name, <<" ", "+">>, <<".", "*", "?">>))

\* no object
NoObject == 0

\* the state order_by_setlist starts its loop in, for a book with the
\* objects objs, the songs book_songs and the sets book_sets
setlist_start(objs, book_songs, book_sets) ==
    [heap |-> objs, songs |-> book_songs, sets |-> book_sets,
     new_order |-> <<>>, current_set |-> NoObject, new_set |-> FALSE,
     current_song |-> NoObject, raised |-> "no"]

\* the first song of the book, from the i-th on, whose title the pattern is
\* found in; NoObject when there is none
RECURSIVE first_match(_, _, _)
first_match(st, restring, i) ==
    IF i > Len(st.songs) THEN NoObject
    ELSE IF re_search(restring, lower(st.heap[st.songs[i]].title)) THEN st.songs[i]
    ELSE first_match(st, restring, i + 1)

\* the "# " branch of order_by_setlist: a set begins
setlist_set(st, potential_song) ==
    LET name == strip(replace(potential_song, <<"#", " ">>, <<>>))
        ended == IF st.current_song # NoObject /\ st.current_set # NoObject
                 THEN [st.heap EXCEPT ![st.current_song].title =
                           @ \o <<" ", "{", "E", "n", "d", " ", "o", "f", " ">> \o st.heap[st.current_set].title \o <<"}">>]
                 ELSE st.heap
        set == cp_song(<<"{", "t", "i", "t", "l", "e", ":", " ">> \o name \o <<"}">>, 0)
    IN  [st EXCEPT !.heap = Append(ended, set),
                   !.current_set = Len(ended) + 1,
                   !.sets = Append(@, Len(ended) + 1),
                   !.new_set = TRUE]

\* what order_by_setlist does with a song of the book found for a
\* reference, when it goes on with the song itself and makes no copy
setlist_found_no_copy(st, song, song_name, transpositions) ==
    LET fresh == st.heap
        current_song == song
        trans == IF transpositions = <<0>>
                 THEN fresh[current_song].standard_transpositions
                 ELSE transpositions
        titled == IF st.new_set
                  THEN [fresh EXCEPT ![current_song].title =
                            st.heap[song].title \o <<" ", "{", "S", "t", "a", "r", "t", " ", "o", "f", " ">>
                                \o st.heap[st.current_set].title \o <<"}">>]
                  ELSE fresh
        formatted == IF Len(trans) > 1 /\ trans[2] # 0
                     THEN [titled EXCEPT ![current_song] = cp_song_format(@, trans[2])]
                     ELSE titled
        name == IF formatted[current_song].key # NoString
                THEN song_name \o <<" ", "(", "i", "n", " ">> \o formatted[current_song].key \o <<")">>
                ELSE song_name
    IN  IF st.current_set = NoObject
        THEN [st EXCEPT !.raised = "AttributeError"]
        ELSE [st EXCEPT !.heap = [formatted EXCEPT ![st.current_set].text =
                                      @ \o <<"#", "#", " ">> \o name \o <<NL>>],
                        !.current_song = current_song,
                        !.new_set = FALSE,
                        !.new_order = Append(@, current_song)]

\* what order_by_setlist does with a song of the book found for a
\* reference: it goes on with a deep copy of the song
setlist_found(st, song, song_name, transpositions) ==
    LET fresh == Append(st.heap, st.heap[song])
        current_song == Len(st.heap) + 1
        trans == IF transpositions = <<0>>
                 THEN fresh[current_song].standard_transpositions
                 ELSE transpositions
        titled == IF st.new_set
                  THEN [fresh EXCEPT ![current_song].title =
                            st.heap[song].title \o <<" ", "{", "S", "t", "a", "r", "t", " ", "o", "f", " ">>
                                \o st.heap[st.current_set].title \o <<"}">>]
                  ELSE fresh
        formatted == IF Len(trans) > 1 /\ trans[2] # 0
                     THEN [titled EXCEPT ![current_song] = cp_song_format(@, trans[2])]
                     ELSE titled
        name == IF formatted[current_song].key # NoString
                THEN song_name \o <<" ", "(", "i", "n", " ">> \o formatted[current_song].key \o <<")">>
                ELSE song_name
    IN  IF st.current_set = NoObject
        THEN [st EXCEPT !.raised = "AttributeError"]
        ELSE [st EXCEPT !.heap = [formatted EXCEPT ![st.current_set].text =
                                      @ \o <<"#", "#", " ">> \o name \o <<NL>>],
                        !.current_song = current_song,
                        !.new_set = FALSE,
                        !.new_order = Append(@, current_song)]

\* what order_by_setlist does with a reference no song is found for
setlist_not_found(st, song_name) ==
    LET fresh == Append(st.heap,
                        cp_song(<<"{", "t", "i", "t", "l", "e", ":", " ">> \o song_name \o <<" ", "(", "n", "o", "t", " ", "f", "o", "u", "n", "d", ")", "}">>, 0))
    IN  IF st.current_set = NoObject
        THEN [st EXCEPT !.raised = "AttributeError"]
        ELSE [st EXCEPT !.heap = [fresh EXCEPT ![st.current_set].text =
                                      @ \o <<"#", "#", " ">> \o song_name \o <<" ", "(", "N", "O", " ", "C", "H", "A", "R", "T", ")", "\n">>],
                        !.current_song = Len(st.heap) + 1,
                        !.new_order = Append(@, Len(st.heap) + 1)]

\* the "## " branch of order_by_setlist: a song reference
setlist_reference(st, potential_song) ==
    CHOOSE after \in
        {IF extracted.raised THEN [st EXCEPT !.raised = "ValueError"]
         ELSE LET song_name == strip(extracted.text)
                  restring == restring_of(song_name)
                  song == first_match(st, restring, 1)
              IN  IF re_compile_raises(restring) THEN [st EXCEPT !.raised = "re.error"]
                  ELSE IF song # NoObject
                  THEN setlist_found(st, song, song_name, extracted.standard_transpositions)
                  ELSE setlist_not_found(st, song_name) :
            extracted \in {extract_transposition(
                               strip(replace(potential_song, <<"#", "#", " ">>, <<>>)))}} : TRUE

\* the last branch of order_by_setlist: notes on the current song
setlist_notes(st, potential_song) ==
    [st EXCEPT !.heap = [@ EXCEPT ![st.current_song].notes_md =
                                      @ \o potential_song \o <<NL, NL>>,
                                  ![st.current_set].text =
                                      @ \o potential_song \o <<NL, NL>>]]

\* one turn of the loop of order_by_setlist; the title and the version of
\* the book, which a directive line sets, are not part of the state
setlist_line(st, line) ==
    LET stripped == strip(line)
        potential_song == collapse_whitespace(stripped, 1)
    IN  IF stripped = <<>> THEN st
        ELSE IF startswith(potential_song, <<"#", " ">>) THEN setlist_set(st, potential_song)
        ELSE IF startswith(potential_song, <<"#", "#", " ">>)
        THEN setlist_reference(st, potential_song)
        ELSE IF st.current_song # NoObject THEN setlist_notes(st, potential_song)
        ELSE st

\* the loop of order_by_setlist over the lines from the i-th on; an
\* exception ends it. The state after a line is computed once and the rest of
\* the loop starts from that value
RECURSIVE setlist_lines(_, _, _)
setlist_lines(st, lines, i) ==
    IF i > Len(lines) \/ st.raised # "no" THEN st
    ELSE CHOOSE last \in {setlist_lines(after, lines, i + 1) :
                              after \in {setlist_line(st, lines[i])}} : TRUE

\* book.order_by_setlist(setlist): the state its loop ends in; when nothing
\* was raised, self.songs = new_order follows
order_by_setlist(objs, book_songs, book_sets, setlist) ==
    CHOOSE last \in
        {IF st.raised # "no" THEN st ELSE [st EXCEPT !.songs = st.new_order] :
            st \in {setlist_lines(setlist_start(objs, book_songs, book_sets),
                                  split(setlist, NL), 1)}} : TRUE

(***************************************************************************)
(* Initial states.                                                         *)
(***************************************************************************)
ChordIdle ==
    /\ chord_in = <<>>
    /\ chord_offset = 0
    /\ chord_out = <<>>
    /\ chord_op = "init"

DirectiveIdle ==
    /\ dline = <<>>
    /\ dir_out = Unset
    /\ dir_done = FALSE

SongIdle ==
    /\ src_text = <<>>
    /\ arg_transpose = 0
    /\ song_obj = NoSong
    /\ song_op = "init"

SetlistIdle ==
    /\ sl_heap = <<>>
    /\ sl_songs = <<>>
    /\ sl_sets = <<>>
    /\ sl_loaded = <<>>
    /\ sl_text = <<>>
    /\ sl_op = "init"

TextIdle == ChordIdle /\ DirectiveIdle /\ SongIdle /\ SetlistIdle

\* a book of either script with at most MaxSongs songs and no sets
Init ==
    /\ DefaultsFresh
    /\ \E n \in 0..MaxSongs : \E head \in SongLists(n) : songs = MakeSongs(head, 0)
    /\ sets = <<>>
    /\ keep_order \in BOOLEAN
    /\ legacy \in BOOLEAN
    /\ op = "init"
    /\ in_songs = <<>>
    /\ in_start = 0
    /\ toc_pages = NoTOC
    /\ contents = NoContents
    /\ target_num_pages = 0
    /\ calls = 0
    /\ TransposerIdle
    /\ TextIdle

\* a book of books/__init__.py: up to MaxHead songs of any length, then
\* none, FillA or FillB one-page songs, and up to MaxSets sets
InitBook ==
    /\ DefaultsFresh
    /\ \E n \in 0..MaxHead : \E head \in SongLists(n) : \E fill \in FillCounts :
          songs = MakeSongs(head, fill)
    /\ \E n \in 0..MaxSets : sets = MakeSets(n)
    /\ keep_order \in BOOLEAN
    /\ legacy = FALSE
    /\ op = "init"
    /\ in_songs = <<>>
    /\ in_start = 0
    /\ toc_pages = NoTOC
    /\ contents = NoContents
    /\ target_num_pages = 0
    /\ calls = 0
    /\ TransposerIdle
    /\ TextIdle

(***************************************************************************)
(* The operations on a book.                                               *)
(***************************************************************************)
\* book.reorder(start_page, old=None, new_order=[], waiting=[])
Reorder(start_page) ==
    /\ UNCHANGED defaultvars
    /\ ~legacy
    /\ calls < MaxCalls
    /\ songs' = reorder(start_page, songs, <<>>, <<>>, keep_order)
    /\ op' = "reorder"
    /\ in_songs' = songs
    /\ in_start' = start_page
    /\ calls' = calls + 1
    /\ UNCHANGED <<sets, keep_order, legacy, toc_pages, contents, target_num_pages>>
    /\ UNCHANGED trvars
    /\ UNCHANGED textvars

\* book.reorder(start_page) of src/chordprobook.py, as convert calls it: once
LegacyReorder(start_page) ==
    /\ legacy
    /\ calls = 0
    /\ songs' = legacy_reorder(start_page, songs, <<>>, <<>>, keep_order)
    /\ \E d \in {reorder_with_defaults(start_page, songs, default_new_order,
                                       default_waiting, keep_order, TRUE)} :
           /\ default_new_order' = d.default_new_order
           /\ default_waiting' = d.default_waiting
    /\ op' = "reorder"
    /\ in_songs' = songs
    /\ in_start' = start_page
    /\ calls' = calls + 1
    /\ UNCHANGED <<sets, keep_order, legacy, toc_pages, contents, target_num_pages>>
    /\ UNCHANGED trvars
    /\ UNCHANGED textvars

\* TOC(book, start_page)
BuildTOC(start_page) ==
    /\ UNCHANGED defaultvars
    /\ ~legacy
    /\ calls < MaxCalls
    /\ LET toc == TOC(songs, sets, start_page)
       IN  /\ songs' = toc.songs
           /\ toc_pages' = toc.pages
           /\ target_num_pages' = toc.target_num_pages
    /\ UNCHANGED contents
    /\ op' = "toc"
    /\ in_songs' = songs
    /\ in_start' = start_page
    /\ calls' = calls + 1
    /\ UNCHANGED <<sets, keep_order, legacy>>
    /\ UNCHANGED trvars
    /\ UNCHANGED textvars

\* cp_song_book.format: every song is formatted, then reorder(1, ...), then
\* TOC(self, 2) and self.contents = toc.format()
Format ==
    /\ UNCHANGED defaultvars
    /\ ~legacy
    /\ calls < MaxCalls
    /\ LET formatted == [i \in 1..Len(songs) |-> song_format(songs[i])]
           ordered == reorder(1, formatted, <<>>, <<>>, keep_order)
           toc == TOC(ordered, sets, 2)
       IN  /\ songs' = toc.songs
           /\ toc_pages' = toc.pages
           /\ contents' = toc_format(toc.pages)
           /\ target_num_pages' = toc.target_num_pages
    /\ op' = "format"
    /\ in_songs' = songs
    /\ in_start' = 2
    /\ calls' = calls + 1
    /\ UNCHANGED <<sets, keep_order, legacy>>
    /\ UNCHANGED trvars
    /\ UNCHANGED textvars

Next ==
    \/ \E start_page \in 1..MaxStart : Reorder(start_page)
    \/ \E start_page \in 1..MaxStart : LegacyReorder(start_page)

Spec == Init /\ [][Next]_vars

NextBook ==
    \/ Reorder(1)
    \/ \E start_page \in 1..MaxTocStart : BuildTOC(start_page)
    \/ Format

SpecBook == InitBook /\ [][NextBook]_vars

(***************************************************************************)
(* Books paginated by reorder(start_page), the call that leaves new_order  *)
(* and waiting to their defaults, as convert of src/chordprobook.py makes  *)
(* it.  One run of the program may paginate several books.                 *)
(***************************************************************************)
\* the song lists of the books loaded after the first one; their songs are
\* none of the first book's
OtherBooks ==
    {<<>>,
     <<Song(MaxDefaultSongs + 1, 2)>>,
     <<Song(MaxDefaultSongs + 1, 1), Song(MaxDefaultSongs + 2, 2)>>}

InitDefaults ==
    /\ DefaultsFresh
    /\ \E n \in 0..MaxDefaultSongs : \E head \in SongLists(n) : songs = MakeSongs(head, 0)
    /\ sets = <<>>
    /\ keep_order \in BOOLEAN
    /\ legacy \in BOOLEAN
    /\ op = "init"
    /\ in_songs = <<>>
    /\ in_start = 0
    /\ toc_pages = NoTOC
    /\ contents = NoContents
    /\ target_num_pages = 0
    /\ calls = 0
    /\ TransposerIdle
    /\ TextIdle

\* book.reorder(start_page)
ReorderDefault(start_page) ==
    /\ calls < MaxDefaultCalls
    /\ \E d \in {reorder_with_defaults(start_page, songs, default_new_order,
                                       default_waiting, keep_order, legacy)} :
           /\ songs' = d.songs
           /\ default_new_order' = d.default_new_order
           /\ default_waiting' = d.default_waiting
    /\ op' = "reorder_default"
    /\ in_songs' = songs
    /\ in_start' = start_page
    /\ calls' = calls + 1
    /\ UNCHANGED <<sets, keep_order, legacy, toc_pages, contents, target_num_pages>>
    /\ UNCHANGED trvars
    /\ UNCHANGED textvars

\* another book is made: cp_song_book(songs, keep_order=...)
LoadBook ==
    /\ op = "reorder_default"
    /\ calls < MaxDefaultCalls
    /\ songs' \in OtherBooks
    /\ keep_order' \in BOOLEAN
    /\ op' = "load"
    /\ UNCHANGED <<sets, legacy, in_songs, in_start, toc_pages, contents, target_num_pages, calls>>
    /\ UNCHANGED defaultvars
    /\ UNCHANGED trvars
    /\ UNCHANGED textvars

NextDefaults ==
    \/ \E start_page \in 1..MaxStart : ReorderDefault(start_page)
    \/ LoadBook

SpecDefaults == InitDefaults /\ [][NextDefaults]_vars

(***************************************************************************)
(* The transposer: a note is transposed by offset, the result by -offset.  *)
(***************************************************************************)
InitTranspose ==
    /\ DefaultsFresh
    /\ songs = <<>>
    /\ sets = <<>>
    /\ keep_order = FALSE
    /\ legacy = TRUE
    /\ op = "init"
    /\ in_songs = <<>>
    /\ in_start = 0
    /\ toc_pages = NoTOC
    /\ contents = NoContents
    /\ target_num_pages = 0
    /\ calls = 0
    /\ note \in NoteNames
    /\ offset \in (0 - MaxOffset)..MaxOffset
    /\ out1 = <<>>
    /\ out2 = <<>>
    /\ tpc = 0
    /\ TextIdle

\* out1 = transposer(offset).transpose_note(note)
TransposeThere ==
    /\ UNCHANGED defaultvars
    /\ tpc = 0
    /\ out1' = transpose_note(note, offset)
    /\ tpc' = 1
    /\ UNCHANGED <<note, offset, out2>>
    /\ UNCHANGED bookvars
    /\ UNCHANGED textvars

\* out2 = transposer(-offset).transpose_note(out1)
TransposeBack ==
    /\ UNCHANGED defaultvars
    /\ tpc = 1
    /\ out2' = transpose_note(out1, 0 - offset)
    /\ tpc' = 2
    /\ UNCHANGED <<note, offset, out1>>
    /\ UNCHANGED bookvars
    /\ UNCHANGED textvars

NextTranspose == TransposeThere \/ TransposeBack

SpecTranspose == InitTranspose /\ [][NextTranspose]_vars

(***************************************************************************)
(* The transposer on chords: one call of transpose_chord or                *)
(* transpose_note on a string, which may hold anything.                    *)
(***************************************************************************)
\* the characters chords are made of here: root letters with and without
\* a neighbour in the note table, both accidentals, a quality and the slash
ChordChars == {"B", "C", "E", "F", "#", "b", "m", "/"}

Dmaj7_Fsharp == <<"D", "m", "a", "j", "7", "/", "F", "#">>

ChordStrings ==
    UNION {[1..n -> ChordChars] : n \in 0..MaxChordLen} \cup {Dmaj7_Fsharp}

BookIdle ==
    /\ songs = <<>>
    /\ sets = <<>>
    /\ keep_order = FALSE
    /\ op = "init"
    /\ in_songs = <<>>
    /\ in_start = 0
    /\ toc_pages = NoTOC
    /\ contents = NoContents
    /\ target_num_pages = 0
    /\ calls = 0

InitChord ==
    /\ DefaultsFresh
    /\ BookIdle
    /\ legacy = TRUE
    /\ TransposerIdle
    /\ chord_in \in ChordStrings
    /\ chord_offset \in (0 - MaxChordOffset)..MaxChordOffset
    /\ chord_out = <<>>
    /\ chord_op = "init"
    /\ DirectiveIdle
    /\ SongIdle
    /\ SetlistIdle

\* chord_out = transposer(chord_offset).transpose_chord(chord)
TransposeChord ==
    /\ UNCHANGED defaultvars
    /\ chord_op = "init"
    /\ chord_out' = transpose_chord(chord_in, chord_offset)
    /\ chord_op' = "chord"
    /\ UNCHANGED <<chord_in, chord_offset>>
    /\ UNCHANGED <<bookvars, trvars, dirvars, songvars, setlistvars>>

\* chord_out = transposer(chord_offset).transpose_note(chord)
TransposeNote ==
    /\ UNCHANGED defaultvars
    /\ chord_op = "init"
    /\ chord_out' = transpose_note(chord_in, chord_offset)
    /\ chord_op' = "note"
    /\ UNCHANGED <<chord_in, chord_offset>>
    /\ UNCHANGED <<bookvars, trvars, dirvars, songvars, setlistvars>>

NextChord == TransposeChord \/ TransposeNote

SpecChord == InitChord /\ [][NextChord]_vars

(***************************************************************************)
(* The directive classifier: one line is classified.                       *)
(***************************************************************************)
\* the characters short lines are made of here
LineChars == {"{", "}", ":", " ", "t", "T", "s"}

SampleLines ==
    {
    <<"{", "t", "i", "t", "l", "e", ":", " ", "A", "m", "a", "z", "i", "n", "g", " ", "G", "r", "a", "c", "e", "}">>,
     <<" ", " ", "{", "S", "O", "C", "}", " ", " ">>,
     <<"{", "K", "e", "y", ":", "C", "}">>,
     <<"{", "n", "p">>,
     <<"{", "f", "o", "o", ":", " ", "b", "a", "r", "}">>,
     <<"{", " ", "t", "i", "t", "l", "e", ":", " ", "x", "}">>,
     <<"{", "t", "i", "t", "l", "e", " ", ":", " ", "x", "}">>,
     <<"{", "c", ":", " ", "a", ":", "b", " ", "}">>,
     <<"{", "n", "e", "w", "_", "p", "a", "g", "e", "}">>,
     <<"t", "i", "t", "l", "e", ":", " ", "x">>,
     <<"{", "}">>}

Lines == UNION {[1..n -> LineChars] : n \in 0..MaxLineLen} \cup SampleLines

InitDirective ==
    /\ DefaultsFresh
    /\ BookIdle
    /\ legacy = FALSE
    /\ TransposerIdle
    /\ ChordIdle
    /\ dline \in Lines
    /\ dir_out = Unset
    /\ dir_done = FALSE
    /\ SongIdle
    /\ SetlistIdle

\* dir_out = directive(dline)
Classify ==
    /\ UNCHANGED defaultvars
    /\ ~dir_done
    /\ dir_out' = directive(dline)
    /\ dir_done' = TRUE
    /\ UNCHANGED dline
    /\ UNCHANGED <<bookvars, trvars, chordvars, songvars, setlistvars>>

NextDirective == Classify

SpecDirective == InitDirective /\ [][NextDirective]_vars

(***************************************************************************)
(* One song: cp_song(src_text, transpose=arg_transpose) is built and then  *)
(* formatted, as cp_song_book.format does with every song of a book.       *)
(***************************************************************************)
\* the lines the short song texts are made of
SongLines ==
    {
    <<"{", "t", "i", "t", "l", "e", ":", " ", "A", "m", "a", "z", "i", "n", "g", " ", "G", "r", "a", "c", "e", "}">>,
     <<"{", "t", ":", "L", "i", "v", "e", "}">>,
     <<"{", "t", "i", "t", "l", "e", ":", "}">>,
     <<"{", "k", "e", "y", ":", " ", "C", "}">>,
     <<"{", "K", "e", "y", ":", "G", "}">>,
     <<"{", "k", "e", "y", ":", "}">>,
     <<"{", "n", "p", "}">>,
     <<"{", "t", "r", ":", " ", "2", " ", "-", "3", "}">>,
     <<"{", "t", "r", "a", "n", "s", "p", "o", "s", "e", ":", "}">>,
     <<"{", "t", "r", ":", " ", "u", "p", "}">>,
     <<"l", "a", "[", "C", "]", "l", "a">>,
     <<>>,
     <<"a">>}

\* longer song texts
SampleTexts ==
    {
    <<"{", "c", ":", " ", ".", "v", " ", "S", "i", "n", "g", "}", "\n", "{", "c", ":", ".", "w", "}", "\n", "x", "\n", "{", "c", ":", " ", "p", "l", "a", "i", "n", "}", "\n", "{", "c", ":", " ", ".", "}", "\n", "{", "c", ":", " ", ".", " ", "y", "}", "\n", "{", "c", ":", " ", ".", "z", "}", "\n", "{", "n", "p", "}">>,
    <<"a", "\n", "b", "\n", "c">>,
     <<"{", "c", ":", " ", ".", "v", " ", "S", "i", "n", "g", "}", "\n", "x", "\n", "{", "n", "p", "}", "\n", "{", "c", ":", ".", "w", "}", "\n", "{", "p", "i", ":", " ", "p", ".", "p", "n", "g", "}">>,
     <<"{", "s", "o", "t", "}", "\n", "[", "C", "]", "x", "\n", "{", "s", "o", "t", "}", "\n", "{", "e", "o", "t", "}", "\n", "[", "D", "]", "\n", "{", "e", "o", "t", "}">>,
     <<".", "x", " ", "y", " ", "[", "C", "]", "[", "D", "]">>,
     <<"#", "n", "\n", "{", "s", "t", ":", " ", "T", "r", "a", "d", "}", "\n", "{", "a", "r", "t", "i", "s", "t", ":", " ", "A", "}", "\n", "{", "s", "o", "c", "}", "\n", "{", "e", "o", "c", "}">>,
     <<"{", "k", "e", "y", ":", " ", "C", "}", "\n", "{", "k", "e", "y", ":", " ", "G", "}", "\n", "{", "k", "e", "y", ":", " ", "F", "#", "m", "}">>,
     <<"{", "n", "e", "w", "_", "p", "a", "g", "e", "}", "\n", "{", "n", "p", "}", "\n", "{", "n", "p", "}">>,
     <<"{", "t", "r", ":", " ", "1", " ", " ", "2", "}">>,
     <<"{", "k", "e", "y", ":", "}", "\n", "[", "A", "]", "\n", "{", "k", "e", "y", ":", " ", "G", "}", "\n", "{", "k", "e", "y", ":", " ", "D", "}">>,
     <<"{", "d", "e", "f", "i", "n", "e", ":", " ", "C", " ", "0", "0", "0", "3", "}", "\n", "{", "t", "e", "m", "p", "o", ":", " ", "9", "0", "}", "\n", "{", "s", "o", "b", "}", "\n", "{", "e", "o", "b", "}">>,
     <<"{", "t", "i", "t", "l", "e", ":", " ", "A", "m", "a", "z", "i", "n", "g", " ", "G", "r", "a", "c", "e", "}", "\n", "A", "[", "C", "]", "m", "a", "z", "[", "G", "]", "i", "n", "g", " ", "[", "F", "]", " ", "g", "r", "a", "c", "e">>}

SongTexts ==
    {join(ls, NL) : ls \in UNION {[1..n -> SongLines] : n \in 1..MaxSongLines}}
        \cup SampleTexts

\* the offsets a song is built with and formatted with; 0 is the default
SongTransposes == {0, 2}

InitSong ==
    /\ DefaultsFresh
    /\ BookIdle
    /\ legacy = FALSE
    /\ TransposerIdle
    /\ ChordIdle
    /\ DirectiveIdle
    /\ src_text \in SongTexts
    /\ arg_transpose \in SongTransposes
    /\ song_obj = NoSong
    /\ song_op = "init"
    /\ SetlistIdle

\* song = cp_song(src_text, transpose=arg_transpose)
NewSong ==
    /\ UNCHANGED defaultvars
    /\ song_op = "init"
    /\ song_obj' = cp_song(src_text, arg_transpose)
    /\ song_op' = IF parse(src_text, arg_transpose).raised
                  THEN "raised"
                  ELSE "new"
    /\ UNCHANGED <<src_text, arg_transpose>>
    /\ UNCHANGED <<bookvars, trvars, chordvars, dirvars, setlistvars>>

\* song.format(transpose=transpose); cp_song_book.format calls it without
\* a transpose
FormatSong(transpose) ==
    /\ UNCHANGED defaultvars
    /\ song_op = "new"
    /\ song_obj' = cp_song_format(song_obj, transpose)
    /\ song_op' = IF transpose = 0 THEN "format" ELSE "format_transposed"
    /\ UNCHANGED <<src_text, arg_transpose>>
    /\ UNCHANGED <<bookvars, trvars, chordvars, dirvars, setlistvars>>

NextSong == NewSong \/ \E transpose \in SongTransposes : FormatSong(transpose)

SpecSong == InitSong /\ [][NextSong]_vars

(***************************************************************************)
(* A book ordered by a setlist: the songs are loaded, then                 *)
(* book.order_by_setlist(sl_text) is called.                               *)
(***************************************************************************)
\* the texts of the songs of the books
BookSongTexts ==
    <<<<"{", "t", "i", "t", "l", "e", ":", " ", "A", "m", "a", "z", "i", "n", "g", " ", "G", "r", "a", "c", "e", " ", "(", "T", "r", "a", "d", "i", "t", "i", "o", "n", "a", "l", ")", "}", "\n", "{", "k", "e", "y", ":", " ", "C", "}", "\n", "o", "n", "e">>,
      <<"{", "t", "i", "t", "l", "e", ":", " ", "G", "r", "a", "c", "e", "}", "\n", "{", "t", "r", ":", " ", "2", "}", "\n", "{", "k", "e", "y", ":", " ", "D", "}", "\n", "[", "D", "]", "t", "w", "o">>,
      <<"{", "t", "i", "t", "l", "e", ":", " ", "A", "m", "a", "z", "i", "n", "g", " ", "G", "r", "a", "c", "e", "}", "\n", "t", "h", "r", "e", "e">>>>

\* the songs of a book, as positions in BookSongTexts
Collections == {<<>>, <<1, 2, 3>>, <<3, 1>>}

\* the lines the short setlists are made of
SetlistLines ==
    {
    <<"#", " ", "S", "e", "t", " ", "1">>,
     <<"#", "#", " ", "a", "m", "a", "z", "i", "n", "g", " ", "g", "r", "a", "c", "e">>,
     <<"#", "#", " ", "a", "m", "a", "z", "i", "n", "g", " ", "t", "r", "a", "d", "i", "t", "i", "o", "n", "a", "l">>,
     <<"#", "#", " ", "g", "r", "a", "c", "e", " ", "{", "t", "r", ":", " ", "3", "}">>,
     <<"#", "#", " ", "g", "r", "a", "c", "e", " ", "{", "t", "r", ":", " ", "x", "}">>,
     <<"#", "#", " ", "m", "i", "s", "s", "i", "n", "g">>,
     <<"#", "#", " ", "g", "r", "a", "c", "e", " ", "(", "l", "i", "v", "e">>,
     <<"s", "o", "f", "t", "l", "y">>}

\* longer setlists
SampleSetlists ==
    {
    <<"#", " ", "S", "e", "t", " ", "1", "\n", "#", "#", " ", "g", "r", "a", "c", "e", "\n", "s", "o", "f", "t", "l", "y", "\n", "#", "#", " ", "g", "r", "a", "c", "e", "\n", "l", "o", "u", "d", "\n", "#", " ", "S", "e", "t", " ", "2", "\n", "#", "#", " ", "g", "r", "a", "c", "e">>,
     <<"#", " ", " ", "S", "e", "t", " ", " ", " ", "2", " ", "\n", "#", "#", " ", "A", "m", "a", "z", "i", "n", "g", " ", "+", "G", "r", "a", "c", "e", "\n", "\n", "{", "t", "i", "t", "l", "e", ":", " ", "M", "y", " ", "B", "o", "o", "k", "}">>,
     <<"#", " ", "S", "e", "t", " ", "1", "\n", "#", "#", " ", "m", "i", "s", "s", "i", "n", "g", "\n", "#", "#", " ", "a", "m", "a", "z", "i", "n", "g", " ", "g", "r", "a", "c", "e", "\n", "#", " ", "S", "e", "t", " ", "2", "\n", "#", "#", " ", "n", "o", "t", "h", "i", "n", "g">>,
     <<"#", " ", "A", "\n", "#", "#", " ", "g", "r", "a", "c", "e", " ", "(", "l", "i", "v", "e", ")", "\n", "#", "#", " ", "G", "r", "a", "c", "e", " ", "(", "T", "r", "a", "d", "i", "t", "i", "o", "n", "a", "l", ")">>}

Setlists ==
    {join(ls, NL) : ls \in UNION {[1..n -> SetlistLines] : n \in 0..MaxSetlistLines}}
        \cup SampleSetlists

InitSetlist ==
    /\ DefaultsFresh
    /\ BookIdle
    /\ legacy = FALSE
    /\ TransposerIdle
    /\ ChordIdle
    /\ DirectiveIdle
    /\ SongIdle
    /\ \E c \in Collections :
          /\ sl_heap = [i \in 1..Len(c) |-> cp_song(BookSongTexts[c[i]], 0)]
          /\ sl_songs = [i \in 1..Len(c) |-> i]
    /\ sl_sets = <<>>
    /\ sl_loaded = sl_heap
    /\ sl_text \in Setlists
    /\ sl_op = "init"

\* book.order_by_setlist(sl_text)
OrderBySetlist ==
    /\ UNCHANGED defaultvars
    /\ sl_op = "init"
    /\ \E st \in {order_by_setlist(sl_heap, sl_songs, sl_sets, sl_text)} :
           /\ sl_heap' = st.heap
           /\ sl_songs' = st.songs
           /\ sl_sets' = st.sets
           /\ sl_op' = IF st.raised = "no" THEN "done" ELSE st.raised
    /\ UNCHANGED <<sl_loaded, sl_text>>
    /\ UNCHANGED <<bookvars, trvars, chordvars, dirvars, songvars>>

NextSetlist == OrderBySetlist

SpecSetlist == InitSetlist /\ [][NextSetlist]_vars

(***************************************************************************)
(* Pagination: the claims about reorder.                                   *)
(***************************************************************************)
\* the last operation was reorder of books/__init__.py, with fresh lists
Reordered == ~legacy /\ op = "reorder"

\* the last operation was reorder of the older script
LegacyReordered == legacy /\ op = "reorder"

\* every song of an even page count begins on an even page
EvenSongsOnEvenPages(seq, start) ==
    \A i \in 1..Len(seq) :
        seq[i].pages % 2 = 0 => PageOf(seq, start, i) % 2 = 0

BlanksIn(seq) == Len(SelectSeq(seq, IsBlank))

IsEvenSong(s) == ~s.blank /\ s.pages % 2 = 0
IsOddSong(s) == ~s.blank /\ s.pages % 2 = 1

\* C1: after one call of reorder with fresh new_order and waiting, every song
\* of the result whose page count is even begins on an even page, counting
\* from the start page of the call over all entries that precede it
C1_EvenSongsBeginOnEvenPages ==
    Reordered => EvenSongsOnEvenPages(songs, in_start)

\* a call that had to insert a blank in front of a song of an even page count
C1_Witness ==
    /\ Reordered
    /\ in_start % 2 = 1
    /\ \E i \in 2..Len(songs) :
          /\ songs[i].pages % 2 = 0
          /\ songs[i - 1].blank
          /\ ~\E j \in 1..Len(in_songs) : in_songs[j].blank

\* C2: one call of reorder neither loses nor duplicates a song: the result
\* holds every entry of the input as often as the input does, and all the
\* other entries, as many as the result is longer than the input, are blanks
C2_NoSongLostOrDuplicated ==
    Reordered =>
        LET inserted == Len(songs) - Len(in_songs)
        IN  /\ inserted >= 0
            /\ \A s \in Range(songs) \cup Range(in_songs) :
                  Count(songs, s) =
                      Count(in_songs, s) + (IF s = BlankSong THEN inserted ELSE 0)

\* a call that deferred a song and one that inserted a blank
C2_Witness ==
    /\ Reordered
    /\ Len(songs) = Len(in_songs) + 1
    /\ Len(in_songs) >= 3
    /\ SelectSeq(songs, NotBlank) # SelectSeq(in_songs, NotBlank)

\* C3 as stated: with the blanks removed, the result of reorder is the input
\* in its order, whatever keep_order is
C3_OrderPreserved ==
    Reordered => SelectSeq(songs, NotBlank) = SelectSeq(in_songs, NotBlank)

\* C3 as amended: with keep_order set, the result of reorder without its blanks
\* is the input in its order; without keep_order a song of an even page count
\* may move back, and the songs of an even page count keep their order among
\* themselves, as the songs of an odd page count do
C3_OrderPreservedWhenKept ==
    Reordered =>
        /\ keep_order => SelectSeq(songs, NotBlank) = SelectSeq(in_songs, NotBlank)
        /\ SelectSeq(songs, IsEvenSong) = SelectSeq(in_songs, IsEvenSong)
        /\ SelectSeq(songs, IsOddSong) = SelectSeq(in_songs, IsOddSong)

\* a call with keep_order that put blanks in front of two songs of three or more
C3_Witness ==
    /\ Reordered
    /\ keep_order
    /\ Len(in_songs) >= 3
    /\ BlanksIn(in_songs) = 0
    /\ BlanksIn(songs) >= 2

\* C4: reorder of the older script with keep_order puts every song of an even
\* page count on an even page
C4_LegacyKeepOrderEvenPages ==
    (LegacyReordered /\ keep_order) => EvenSongsOnEvenPages(songs, in_start)

\* the fixture of C5: start page 1, page counts 1, 2, 1, 2, keep_order off
C5_Fixture ==
    /\ Reordered
    /\ ~keep_order
    /\ in_start = 1
    /\ in_songs = MakeSongs(<<1, 2, 1, 2>>, 0)

\* the page on which the song of title id begins in the result
PageOfSong(id) ==
    PageOf(songs, in_start, CHOOSE i \in 1..Len(songs) : songs[i].id = id)

\* C5 as stated: song 1 is on page 1, song 2 on 2, song 3 on 4, song 4 on 5
C5_FixturePagesAsStated ==
    C5_Fixture =>
        /\ PageOfSong(1) = 1
        /\ PageOfSong(2) = 2
        /\ PageOfSong(3) = 4
        /\ PageOfSong(4) = 5

\* C5 as amended: song 1 is on page 1, song 2 on pages 2-3, song 3 on page 4,
\* a blank on page 5 and song 4 on pages 6-7
C5_FixturePages ==
    C5_Fixture =>
        /\ songs = <<Song(1, 1), Song(2, 2), Song(3, 1), BlankSong, Song(4, 2)>>
        /\ PageOfSong(1) = 1
        /\ PageOfSong(2) = 2
        /\ PageOfSong(3) = 4
        /\ PageOf(songs, in_start, 4) = 5
        /\ PageOfSong(4) = 6

\* the fixture has been paginated
C5_Witness ==
    /\ C5_Fixture
    /\ Len(songs) = 5

(***************************************************************************)
(* The contents: the claims about TOC and cp_song_book.format.             *)
(***************************************************************************)
\* the last operation built a TOC
TocBuilt == op \in {"toc", "format"}

RECURSIVE Flatten(_)
Flatten(pages) == IF pages = <<>> THEN <<>> ELSE pages[1] \o Flatten(Tail(pages))

RECURSIVE SumLen(_)
SumLen(pages) == IF pages = <<>> THEN 0 ELSE Len(pages[1]) + SumLen(Tail(pages))

\* the entries of all contents pages, in order
TocEntries == Flatten(toc_pages)

\* the sets and the songs of the book that are not blank
RealSets == SelectSeq(sets, NotBlank)
RealSongs == SelectSeq(songs, NotBlank)

\* the least c with c * b >= a, for a >= 0 and b > 0
Ceiling(a, b) == CHOOSE c \in 0..a : c * b >= a /\ (c - 1) * b < a

\* C6: the entries of all contents pages together are as many as the sets
\* that are not blank plus the songs that are not blank
C6_TocEntryCount ==
    TocBuilt => SumLen(toc_pages) = Len(RealSets) + Len(RealSongs)

\* a contents of two or more pages for a book with sets and with a blank
C6_Witness ==
    /\ TocBuilt
    /\ Len(toc_pages) >= 2
    /\ Len(sets) >= 1
    /\ BlanksIn(songs) >= 1
    /\ SumLen(toc_pages) > max_songs_per_page

\* the contents entry of the song at place k of book.songs
EntryOfSong(k) ==
    TocEntries[Len(RealSets) + Len(SelectSeq(SubSeq(songs, 1, k), NotBlank))]

\* C7: the page the contents give a song is start_page + pages_needed plus the
\* pages of every set and of every entry of book.songs in front of it, the
\* blanks among them included
C7_TocPagesMirrorPagination ==
    TocBuilt =>
        \A k \in 1..Len(songs) :
            ~songs[k].blank =>
                EntryOfSong(k).page =
                    in_start + target_num_pages + SumPages(sets)
                             + SumPages(SubSeq(songs, 1, k - 1))

\* C8: after cp_song_book.format the contents give the first song an odd
\* page, the parity of the start page 1 that reorder was called with
C8_FirstSongOnOddPage ==
    (op = "format" /\ Len(RealSongs) > 0) =>
        TocEntries[Len(RealSets) + 1].page % 2 = 1

\* the entries the contents are to hold, without their pages: sets, then songs
ExpectedTitles ==
    [i \in 1..Len(RealSets) |-> <<"set", RealSets[i].id>>]
    \o [i \in 1..Len(RealSongs) |-> <<"song", RealSongs[i].id>>]

TitlesOf(entries) == [i \in 1..Len(entries) |-> <<entries[i].kind, entries[i].id>>]

\* C9: more than 50 entries are split into ceil(entries / 40) chunks, none
\* empty, all but the last of ceil(entries / chunks) entries, that together
\* are the full list of entries in order; up to 50 entries are on one page
C9_TocChunks ==
    TocBuilt =>
        LET total == Len(RealSets) + Len(RealSongs)
            pages_needed == Ceiling(total, ideal_songs_per_page)
        IN  /\ TitlesOf(TocEntries) = ExpectedTitles
            /\ IF total > max_songs_per_page
               THEN /\ target_num_pages = pages_needed
                    /\ Len(toc_pages) = pages_needed
                    /\ \A i \in 1..Len(toc_pages) : Len(toc_pages[i]) > 0
                    /\ \A i \in 1..(Len(toc_pages) - 1) :
                          Len(toc_pages[i]) = Ceiling(total, pages_needed)
               ELSE /\ target_num_pages = 1
                    /\ Len(toc_pages) = 1

\* a contents of four chunks, the last of them shorter than the others
C9_Witness ==
    /\ TocBuilt
    /\ Len(toc_pages) = 4
    /\ Len(toc_pages[4]) < Len(toc_pages[1])
    /\ Len(toc_pages[4]) > 0

(***************************************************************************)
(* The transposer: the claims about transpose_note.                        *)
(***************************************************************************)
\* the spelling __notes has for the pitch class of a note of the table
Canonical(n) == notes[note_indicies(n) + 1]

\* C10: a note of the table transposed by k and then by -k, for k in -11..11,
\* is the canonical spelling of the pitch class of the note
C10_TransposeRoundTrip ==
    tpc = 2 => out2 = Canonical(note)

\* Db down eleven semitones is D, and D up eleven is C#, not Db
C10_Witness ==
    /\ tpc = 2
    /\ note = <<"D", "b">>
    /\ offset = 0 - 11
    /\ out1 = <<"D">>
    /\ out2 = <<"C", "#">>

(***************************************************************************)
(* The transposer: the claims about transpose_chord.                       *)
(***************************************************************************)
\* position i of s holds the letter of a root-note token
IsRoot(s, i) == s[i] \in RootLetters

\* position i of s holds the accidental of a root-note token
IsRootAccidental(s, i) ==
    i > 1 /\ s[i] \in Accidentals /\ s[i - 1] \in RootLetters

\* the root-note token whose letter is at position i of s
RootToken(s, i) ==
    SubSeq(s, i, IF i < Len(s) /\ IsRootAccidental(s, i + 1) THEN i + 1 ELSE i)

RootTokens(s) == {RootToken(s, i) : i \in {j \in 1..Len(s) : IsRoot(s, j)}}

\* the spelling __notes has for the pitch class k semitones above note n
Shifted(n, k) ==
    LET class == CHOOSE c \in 0..11 : (c - note_indicies(n) - k) % 12 = 0
    IN  notes[class + 1]

\* what position i of s contributes to the transposed chord: a root letter
\* the whole shifted note, the accidental of a root nothing more, any other
\* character itself; a token outside the note table is kept when keep is set
Contribution(s, i, k, keep) ==
    IF IsRoot(s, i)
    THEN IF RootToken(s, i) \in NoteNames THEN Shifted(RootToken(s, i), k)
         ELSE IF keep THEN RootToken(s, i) ELSE <<>>
    ELSE IF IsRootAccidental(s, i) THEN <<>>
    ELSE <<s[i]>>

RECURSIVE Contributions(_, _, _, _)
Contributions(s, n, k, keep) ==
    IF n = 0 THEN <<>>
    ELSE Contributions(s, n - 1, k, keep) \o Contribution(s, n, k, keep)

RootsReplaced(s, k) == Contributions(s, Len(s), k, FALSE)

Emaj7_Gsharp == <<"E", "m", "a", "j", "7", "/", "G", "#">>

Emaj7_Aflat == <<"E", "m", "a", "j", "7", "/", "A", "b">>

\* C11 as stated: transpose_chord replaces the root-note tokens of a chord,
\* the bass note after a slash included, leaves every other character
\* untouched, and turns Dmaj7/F# transposed by +2 into Emaj7/G#
C11_ChordExampleAsStated ==
    chord_op = "chord" =>
        /\ RootTokens(chord_in) \subseteq NoteNames =>
               chord_out = RootsReplaced(chord_in, chord_offset)
        /\ chord_in = Dmaj7_Fsharp /\ chord_offset = 2 => chord_out = Emaj7_Gsharp

\* C11: for a chord whose root-note tokens are all in the note table,
\* transpose_chord replaces each token (a letter A-G and the # or b after
\* it), the bass note after a slash included, by the spelling __notes has
\* for the shifted pitch class and leaves every other character untouched;
\* Dmaj7/F# transposed by +2 is Emaj7/Ab
C11_ChordRootsReplaced ==
    chord_op = "chord" /\ RootTokens(chord_in) \subseteq NoteNames =>
        /\ chord_out = RootsReplaced(chord_in, chord_offset)
        /\ chord_in = Dmaj7_Fsharp /\ chord_offset = 2 => chord_out = Emaj7_Aflat

C11_Witness ==
    /\ chord_op = "chord"
    /\ chord_in = Dmaj7_Fsharp
    /\ chord_offset = 2
    /\ chord_out = Emaj7_Aflat

\* the tokens that fit the pattern [A-G](#|b)? and are not in the note table
UnknownTokens == {<<"C", "b">>, <<"F", "b">>, <<"E", "#">>, <<"B", "#">>}

\* C12: transposing an unrecognized pitch token returns it unchanged and
\* never raises: transpose_note returns an input that is not in the note
\* table as it is, and transpose_chord keeps a token that fits the pattern
\* and is not in the table (Cb, Fb, E#, B#), for every offset
C12_UnknownTokenUnchanged ==
    /\ chord_op = "note" /\ chord_in \notin NoteNames => chord_out = chord_in
    /\ chord_op = "chord" =>
           chord_out = Contributions(chord_in, Len(chord_in), chord_offset, TRUE)

(***************************************************************************)
(* The directive classifier: the claim about directive().                  *)
(***************************************************************************)
SetMin(S) == CHOOSE i \in S : \A j \in S : i <= j

SetMax(S) == CHOOSE i \in S : \A j \in S : i >= j

\* positions of s that hold something else than white space
NonBlank(s) == {i \in 1..Len(s) : s[i] \notin Whitespace}

\* s without the white space at its two ends
Trimmed(s) ==
    IF NonBlank(s) = {} THEN <<>>
    ELSE SubSeq(s, SetMin(NonBlank(s)), SetMax(NonBlank(s)))

Colons(s) == {i \in 1..Len(s) : s[i] = ":"}

\* the text before the first colon of s: all of s when it has no colon
BeforeFirstColon(s) ==
    IF Colons(s) = {} THEN s ELSE SubSeq(s, 1, SetMin(Colons(s)) - 1)

\* the text after the first colon of s: nothing when it has no colon
AfterFirstColon(s) ==
    IF Colons(s) = {} THEN <<>> ELSE SubSeq(s, SetMin(Colons(s)) + 1, Len(s))

\* a and b are the same text but for the case of their letters
SameIgnoringCase(a, b) ==
    /\ Len(a) = Len(b)
    /\ \A i \in 1..Len(a) :
          \/ a[i] = b[i]
          \/ <<a[i], b[i]>> \in CasePairs
          \/ <<b[i], a[i]>> \in CasePairs

\* the text between the braces of a trimmed line that has both
Braced(s) == s # <<>> /\ s[1] = "{" /\ s[Len(s)] = "}"

\* the entries of the vocabulary table a line names
Named(l) ==
    LET s == Trimmed(l)
    IN  IF Braced(s)
        THEN {d \in directives :
                 SameIgnoringCase(BeforeFirstColon(SubSeq(s, 2, Len(s) - 1)), d[1])}
        ELSE {}

DirectiveTypes == {d[2] : d \in directives}

\* C13: classifying a line never raises; the line is a directive exactly
\* when, trimmed, it starts with "{", ends with "}" and the text before the
\* first ":" is, but for case, a name or alias of the vocabulary table, and
\* then its value is the trimmed rest; every other line, one without its
\* closing brace or with an unknown name included, is not a directive
C13_DirectiveClassification ==
    dir_done =>
        LET s == Trimmed(dline)
        IN  /\ dir_out.type \in DirectiveTypes \cup {None}
            /\ IF Named(dline) # {}
               THEN /\ \E d \in Named(dline) : dir_out.type = d[2]
                    /\ dir_out.value = Trimmed(AfterFirstColon(SubSeq(s, 2, Len(s) - 1)))
               ELSE dir_out.type = None

\* a line in capitals with white space around it, and nothing after the name
C13_Witness ==
    /\ dir_done
    /\ dline = <<" ", " ", "{", "S", "O", "C", "}", " ", " ">>
    /\ dir_out = [type |-> "start_chorus", value |-> <<>>]

(***************************************************************************)
(* Songs: the claims about cp_song.parse and cp_song.format.               *)
(***************************************************************************)
NewLines(s) == {p \in 1..Len(s) : s[p] = NL}

\* the position of the k-th line break of s; 0 and Len(s) + 1 stand for the
\* two ends of s
LineBreak(s, k) ==
    IF k = 0 THEN 0
    ELSE IF k > Cardinality(NewLines(s)) THEN Len(s) + 1
    ELSE CHOOSE p \in NewLines(s) :
             Cardinality({q \in NewLines(s) : q <= p}) = k

\* the lines of the text s
LinesOf(s) ==
    [k \in 1..(Cardinality(NewLines(s)) + 1) |->
        SubSeq(s, LineBreak(s, k - 1) + 1, LineBreak(s, k) - 1)]

\* line l is a directive of the type ty
IsDirective(l, ty) == \E d \in Named(l) : d[2] = ty

\* the value of the directive line l
ValueOf(l) ==
    LET s == Trimmed(l)
    IN  Trimmed(AfterFirstColon(SubSeq(s, 2, Len(s) - 1)))

\* the lines of the song text that are directives of the type ty
DirectiveLines(ty) == SelectSeq(LinesOf(src_text), LAMBDA l : IsDirective(l, ty))

RECURSIVE ValuesJoined(_)
ValuesJoined(ls) ==
    IF ls = <<>> THEN <<>> ELSE ValueOf(ls[1]) \o ValuesJoined(Tail(ls))

\* the content of the song that src_text without its title lines makes
ContentWithoutTitles ==
    LET rest == SelectSeq(LinesOf(src_text), LAMBDA l : ~IsDirective(l, "title"))
    IN  IF rest = <<>> THEN <<>>
        ELSE parse(join(rest, NL), arg_transpose).new_text

\* C14: the title of a song is the values of its title directives appended
\* in order of appearance ({title: Amazing Grace} alone gives exactly
\* "Amazing Grace"), the default title is used only when they supply no
\* text, and a title directive adds nothing to the content of the song
C14_TitleFromDirectives ==
    song_op = "new" =>
        /\ song_obj.title = IF ValuesJoined(DirectiveLines("title")) = <<>>
                            THEN DefaultTitle
                            ELSE ValuesJoined(DirectiveLines("title"))
        /\ song_obj.text = ContentWithoutTitles
        /\ DirectiveLines("title") = <<<<"{", "t", "i", "t", "l", "e", ":", " ", "A", "m", "a", "z", "i", "n", "g", " ", "G", "r", "a", "c", "e", "}">>>> =>
               song_obj.title = <<"A", "m", "a", "z", "i", "n", "g", " ", "G", "r", "a", "c", "e">>

\* a song with two title directives
C14_Witness ==
    /\ song_op = "new"
    /\ src_text = <<"{", "t", "i", "t", "l", "e", ":", " ", "A", "m", "a", "z", "i", "n", "g", " ", "G", "r", "a", "c", "e", "}", "\n", "{", "t", ":", "L", "i", "v", "e", "}">>
    /\ song_obj.title = <<"A", "m", "a", "z", "i", "n", "g", " ", "G", "r", "a", "c", "e", "L", "i", "v", "e">>
    /\ song_obj.text = <<>>

\* the lines of the content of the song that are key directives
KeyLinesKept ==
    SelectSeq(LinesOf(song_obj.text), LAMBDA l : IsDirective(l, "key"))

\* C15 as stated: the first key directive of a song, whatever its value,
\* sets the original key and is consumed; every later key directive leaves
\* the original key unchanged and is kept in the content
C15_FirstKeyWhateverItsValue ==
    song_op = "new" /\ DirectiveLines("key") # <<>> =>
        /\ song_obj.original_key = ValueOf(DirectiveLines("key")[1])
        /\ Len(KeyLinesKept) = Len(DirectiveLines("key")) - 1

\* the key directives of the song text that have a value
KeyLinesWithValue ==
    SelectSeq(DirectiveLines("key"), LAMBDA l : ValueOf(l) # <<>>)

\* the number of key directives of the song text up to the first that has a
\* value: all of them when none has one
KeyLinesConsumed ==
    IF KeyLinesWithValue = <<>> THEN Len(DirectiveLines("key"))
    ELSE CHOOSE n \in 1..Len(DirectiveLines("key")) :
             /\ ValueOf(DirectiveLines("key")[n]) # <<>>
             /\ \A m \in 1..(n - 1) : ValueOf(DirectiveLines("key")[m]) = <<>>

\* C15: the first key directive with a value that is not empty sets the
\* original key; it and the key directives before it are consumed, every
\* later key directive leaves the original key unchanged and is kept in the
\* content
C15_FirstKeyWithValue ==
    song_op = "new" =>
        /\ song_obj.original_key =
               IF KeyLinesWithValue # <<>> THEN ValueOf(KeyLinesWithValue[1])
               ELSE IF DirectiveLines("key") # <<>> THEN <<>>
               ELSE NoString
        /\ Len(KeyLinesKept) = Len(DirectiveLines("key")) - KeyLinesConsumed
        /\ \A i \in 1..Len(KeyLinesKept) :
              ValueOf(KeyLinesKept[i]) =
                  ValueOf(DirectiveLines("key")[KeyLinesConsumed + i])

\* a key directive without a value, then the one that sets the key, then two
\* that are kept
C15_Witness ==
    /\ song_op = "new"
    /\ src_text = <<"{", "k", "e", "y", ":", "}", "\n", "[", "A", "]", "\n", "{", "k", "e", "y", ":", " ", "G", "}", "\n", "{", "k", "e", "y", ":", " ", "D", "}">>
    /\ song_obj.original_key = <<"G">>
    /\ Len(KeyLinesKept) = 1
    /\ ValueOf(KeyLinesKept[1]) = <<"D">>

\* C16: the page count a song has after parse and cp_song.format, which is
\* what cp_song_book.format hands to reorder, is 1 plus the number of
\* new_page directives of the song
C16_PagesCountNewPages ==
    song_op = "format" =>
        song_obj.pages = 1 + Len(DirectiveLines("new_page"))

\* C20: parsing a song never fails because of a malformed directive: with a
\* transpose directive whose value is empty or not a list of integers the
\* song is built all the same, and its standard transpositions are a list
\* of integers that starts with 0
C20_ParseNeverFails ==
    /\ song_op # "raised"
    /\ song_op = "new" =>
           /\ song_obj.standard_transpositions[1] = 0
           /\ \A i \in 1..Len(song_obj.standard_transpositions) :
                 song_obj.standard_transpositions[i] \in Int

(***************************************************************************)
(* Setlists: the claims about order_by_setlist.                            *)
(***************************************************************************)
SetlistText == LinesOf(sl_text)

IsSetLine(l) == startswith(Trimmed(l), <<"#", " ">>)

IsReferenceLine(l) == startswith(Trimmed(l), <<"#", "#", " ">>)

IsNoteLine(l) == Trimmed(l) # <<>> /\ ~IsSetLine(l) /\ ~IsReferenceLine(l)

ReferencePositions == {i \in 1..Len(SetlistText) : IsReferenceLine(SetlistText[i])}

\* the position in the setlist of its k-th song reference; past the last
\* line when there are fewer
ReferencePosition(k) ==
    IF k > Cardinality(ReferencePositions) THEN Len(SetlistText) + 1
    ELSE CHOOSE p \in ReferencePositions :
             Cardinality({q \in ReferencePositions : q <= p}) = k

\* the text of the k-th song reference of the setlist
Reference(k) ==
    LET l == Trimmed(SetlistText[ReferencePosition(k)])
    IN  Trimmed(SubSeq(l, 4, Len(l)))

\* a reference made of words and spaces only
IsPlain(r) == \A i \in 1..Len(r) : r[i] \in Letters \cup {" "}

AllReferencesPlain ==
    \A k \in 1..Cardinality(ReferencePositions) : IsPlain(Reference(k))

WordsOf(r) == SelectSeq(split(r, " "), LAMBDA w : w # <<>>)

\* the words ws, from the k-th on, occur in this order in t from position j
\* on, whatever is between them
RECURSIVE InOrder(_, _, _, _)
InOrder(ws, k, t, j) ==
    IF k > Len(ws) THEN TRUE
    ELSE \E p \in j..(Len(t) - Len(ws[k]) + 1) :
             /\ SubSeq(t, p, p + Len(ws[k]) - 1) = ws[k]
             /\ InOrder(ws, k + 1, t, p + Len(ws[k]))

\* the songs of the loaded book whose title has the words of r in order,
\* case ignored
TitlesWithWords(r) ==
    {i \in 1..Len(sl_loaded) :
        InOrder(WordsOf(lower(r)), 1, lower(sl_loaded[i].title), 1)}

\* the song placed for the k-th reference
Placed(k) == sl_heap[sl_songs[k]]

\* C17: a reference matches a song when its words, the spaces between them
\* standing for any characters, occur in this order in the title, case
\* ignored; the first matching song of the collection is the one placed
C17_SpacesAreWildcards ==
    sl_op = "done" /\ AllReferencesPlain =>
        /\ Len(sl_songs) = Cardinality(ReferencePositions)
        /\ \A k \in 1..Len(sl_songs) :
              IF TitlesWithWords(Reference(k)) # {}
              THEN Placed(k).text = sl_loaded[SetMin(TitlesWithWords(Reference(k)))].text
              ELSE Placed(k).text = <<>>

\* the notes that follow the k-th reference of the setlist
RECURSIVE NotesBetween(_, _)
NotesBetween(i, to) ==
    IF i >= to THEN <<>>
    ELSE (IF IsNoteLine(SetlistText[i])
          THEN Trimmed(SetlistText[i]) \o <<NL, NL>>
          ELSE <<>>) \o NotesBetween(i + 1, to)

NotesAfter(k) == NotesBetween(ReferencePosition(k) + 1, ReferencePosition(k + 1))

\* C18: every song order_by_setlist places is a copy of its own: it is none
\* of the loaded songs and none of the other songs placed, the loaded songs
\* are as they were, and each copy has the notes of its own reference only
C18_CopiesAreIndependent ==
    sl_op # "init" =>
        /\ \A id \in 1..Len(sl_loaded) : sl_heap[id] = sl_loaded[id]
        /\ sl_op = "done" =>
               /\ \A k \in 1..Len(sl_songs) : sl_songs[k] > Len(sl_loaded)
               /\ \A j, k \in 1..Len(sl_songs) : j # k => sl_songs[j] # sl_songs[k]
               /\ \A k \in 1..Len(sl_songs) : Placed(k).notes_md = NotesAfter(k)

\* one song referenced three times, with notes of its own each time
C18_Witness ==
    /\ sl_op = "done"
    /\ sl_text = <<"#", " ", "S", "e", "t", " ", "1", "\n", "#", "#", " ", "g", "r", "a", "c", "e", "\n", "s", "o", "f", "t", "l", "y", "\n", "#", "#", " ", "g", "r", "a", "c", "e", "\n", "l", "o", "u", "d", "\n", "#", " ", "S", "e", "t", " ", "2", "\n", "#", "#", " ", "g", "r", "a", "c", "e">>
    /\ Len(sl_loaded) = 3
    /\ Len(sl_songs) = 3
    /\ Placed(1).notes_md = <<"s", "o", "f", "t", "l", "y", "\n", "\n">>
    /\ Placed(2).notes_md = <<"l", "o", "u", "d", "\n", "\n">>
    /\ Placed(3).notes_md = <<>>
    /\ Placed(1).title = <<"A", "m", "a", "z", "i", "n", "g", " ", "G", "r", "a", "c", "e", " ", "(", "T", "r", "a", "d", "i", "t", "i", "o", "n", "a", "l", ")", " ", "{", "S", "t", "a", "r", "t", " ", "o", "f", " ", "S", "e", "t", " ", "1", "}">>
    /\ Placed(2).title = <<"A", "m", "a", "z", "i", "n", "g", " ", "G", "r", "a", "c", "e", " ", "(", "T", "r", "a", "d", "i", "t", "i", "o", "n", "a", "l", ")", " ", "{", "E", "n", "d", " ", "o", "f", " ", "S", "e", "t", " ", "1", "}">>
    /\ sl_heap[1].title = <<"A", "m", "a", "z", "i", "n", "g", " ", "G", "r", "a", "c", "e", " ", "(", "T", "r", "a", "d", "i", "t", "i", "o", "n", "a", "l", ")">>

\* C19: a reference that matches no title gives, at its place in the new
\* order, a song titled "<reference> (not found)", the lines after it are
\* dealt with, and no reference makes order_by_setlist fail
C19_UnmatchedReferenceNeverFails ==
    /\ sl_op \in {"init", "done"}
    /\ sl_op = "done" =>
           /\ Len(sl_songs) = Cardinality(ReferencePositions)
           /\ \A k \in 1..Len(sl_songs) :
                 IsPlain(Reference(k)) /\ TitlesWithWords(Reference(k)) = {} =>
                     startswith(Placed(k).title, Reference(k) \o <<" ", "(", "n", "o", "t", " ", "f", "o", "u", "n", "d", ")">>)

(***************************************************************************)
(* The empty book.                                                         *)
(***************************************************************************)
EmptyBook == in_songs = <<>> /\ sets = <<>>

\* C21: on a book with no songs and no sets reorder leaves the empty song
\* list, no blank in it, and TOC gives one contents page with no entry
C21_EmptyBook ==
    /\ op = "reorder" /\ EmptyBook => songs = <<>>
    /\ op \in {"toc", "format"} /\ EmptyBook =>
           /\ songs = <<>>
           /\ target_num_pages = 1
           /\ toc_pages = <<<<>>>>

\* the contents of an empty book, built after its pagination
C21_Witness ==
    /\ op = "toc"
    /\ calls = 2
    /\ EmptyBook
    /\ songs = <<>>
    /\ Len(toc_pages) = 1
    /\ toc_pages[1] = <<>>

(***************************************************************************)
(* Setlists: the markers of the sets.                                      *)
(***************************************************************************)
SetPositions == {i \in 1..Len(SetlistText) : IsSetLine(SetlistText[i])}

\* the position in the setlist of its k-th set header; past the last line
\* when there are fewer
SetPosition(k) ==
    IF k > Cardinality(SetPositions) THEN Len(SetlistText) + 1
    ELSE CHOOSE p \in SetPositions :
             Cardinality({q \in SetPositions : q <= p}) = k

\* the references of the k-th set, as their numbers among the references
ReferencesOfSet(k) ==
    {r \in 1..Cardinality(ReferencePositions) :
        SetPosition(k) < ReferencePosition(r) /\ ReferencePosition(r) < SetPosition(k + 1)}

\* sub occurs in t
Contains(t, sub) ==
    \E i \in 1..(Len(t) - Len(sub) + 1) : SubSeq(t, i, i + Len(sub) - 1) = sub

\* the title of the k-th set of the book
SetTitle(k) == sl_heap[sl_sets[k]].title

StartMarker(k) == <<"{", "S", "t", "a", "r", "t", " ", "o", "f", " ">> \o SetTitle(k) \o <<"}">>

EndMarker(k) == <<"{", "E", "n", "d", " ", "o", "f", " ">> \o SetTitle(k) \o <<"}">>

\* C22: after order_by_setlist the first song of every set that has songs
\* carries "{Start of <set>}", its last song "{End of <set>}", the last set
\* of the setlist included, and no song carries the marker of another set
C22_SetMarkers ==
    sl_op = "done" =>
        /\ Len(sl_sets) = Cardinality(SetPositions)
        /\ \A k \in 1..Len(sl_sets) :
              /\ ReferencesOfSet(k) # {} =>
                     /\ Contains(Placed(SetMin(ReferencesOfSet(k))).title, StartMarker(k))
                     /\ Contains(Placed(SetMax(ReferencesOfSet(k))).title, EndMarker(k))
              /\ \A j \in 1..Len(sl_sets) : \A r \in ReferencesOfSet(j) :
                     SetTitle(j) # SetTitle(k) =>
                         /\ ~Contains(Placed(r).title, StartMarker(k))
                         /\ ~Contains(Placed(r).title, EndMarker(k))

(***************************************************************************)
(* Songs: the chords of a formatted song.                                  *)
(***************************************************************************)
\* the first position of t, from i on, where sub begins; 0 when there is none
FirstAt(t, sub, i) ==
    LET at == {p \in i..(Len(t) - Len(sub) + 1) : SubSeq(t, p, p + Len(sub) - 1) = sub}
    IN  IF at = {} THEN 0 ELSE SetMin(at)

\* the texts found in t, from i on, between an opening and the next closing
RECURSIVE Enclosed(_, _, _, _)
Enclosed(t, opening, closing, i) ==
    LET o == FirstAt(t, opening, i)
        c == IF o = 0 THEN 0 ELSE FirstAt(t, closing, o + Len(opening))
    IN  IF c = 0 THEN <<>>
        ELSE <<SubSeq(t, o + Len(opening), c - 1)>>
                 \o Enclosed(t, opening, closing, c + Len(closing))

RECURSIVE Concatenated(_)
Concatenated(seqs) ==
    IF seqs = <<>> THEN <<>> ELSE seqs[1] \o Concatenated(Tail(seqs))

\* the chords of the inline markers [chord] of a text, line by line
InlineChords(t) ==
    Concatenated([k \in 1..Len(LinesOf(t)) |-> Enclosed(LinesOf(t)[k], <<"[">>, <<"]">>, 1)])

\* the chords a formatted song shows
ShownChords(md) == Enclosed(md, <<"<", "s", "p", "a", "n", " ", "c", "l", "a", "s", "s", "=", "\"", "c", "h", "o", "r", "d", "\"", ">">>, <<"<", "/", "s", "p", "a", "n", ">">>, 1)

\* C23: format with a transpose that is not 0 shows every inline chord of
\* the song transposed by it, whether the song has a key or not and whatever
\* transpose it was built with
C23_OverrideTransposesEveryChord ==
    song_op = "format_transposed" =>
        ShownChords(song_obj.md) =
            [k \in 1..Len(InlineChords(song_obj.text)) |->
                chords_transpose_chord(InlineChords(song_obj.text)[k], song_obj.transpose)]

(***************************************************************************)
(* Songs: the forced line breaks.                                          *)
(***************************************************************************)
\* what forces a line break when it ends a line
BreakMarker == <<" ", " ", " ", " ">>

IsBlankLine(l) == Trimmed(l) = <<>>

\* C24: in the text parse leaves, every line that is not blank and has a line
\* that is not blank right after it ends with the break marker, in a run of
\* three lines or more and for lines of one character too, and no blank
\* line has the marker
C24_AdjacentLinesJoined ==
    song_op = "new" =>
        LET ls == LinesOf(song_obj.text)
        IN  /\ \A i \in 1..(Len(ls) - 1) :
                  ~IsBlankLine(ls[i]) /\ ~IsBlankLine(ls[i + 1]) =>
                      endswith(ls[i], BreakMarker)
            /\ \A i \in 1..Len(ls) :
                  IsBlankLine(ls[i]) => ~endswith(ls[i], BreakMarker)

(***************************************************************************)
(* Songs: the custom blocks and the tab blocks, line after line.           *)
(***************************************************************************)
SourceLines == LinesOf(src_text)

\* the state of parse when it has dealt with the first k lines of the song
ParsedUpTo(k) == parse_lines(parse_start(arg_transpose), SubSeq(SourceLines, 1, k), 1)

\* how many times sub occurs in t
Occurrences(t, sub) ==
    Cardinality({p \in 1..(Len(t) - Len(sub) + 1) : SubSeq(t, p, p + Len(sub) - 1) = sub})

\* the markers that open a custom block
BlockOpens(t) == Occurrences(t, <<"<", "d", "i", "v", " ", "c", "l", "a", "s", "s", "=", "'">>)

\* the markers that close a custom block: the closing tags that do not
\* belong to a metadata block, which is opened and closed in one piece
BlockCloses(t) == Occurrences(t, <<"<", "/", "d", "i", "v", ">">>) - Occurrences(t, <<"<", "d", "i", "v", " ", "c", "l", "a", "s", "s", "=", "\"", "m", "e", "t", "a", " ">>)

\* the value of a comment names a class: "." and a name right after it
NamesClass(v) == Len(v) >= 2 /\ v[1] = "." /\ v[2] # " "

\* C25: at most one custom block is open at any time in parse. A comment
\* closes the open block and opens one only if its value is "." and a class
\* name, new_page and page_image close the open block, other lines leave it
\* as it is, and after every line the block markers opened less those
\* closed are 1 if a block is open and 0 if none is
C25_OneBlockAtATime ==
    song_op = "new" =>
        \A k \in 1..Len(SourceLines) :
            LET before == ParsedUpTo(k - 1)
                after == ParsedUpTo(k)
                l == SourceLines[k]
            IN  /\ BlockOpens(after.new_text) - BlockCloses(after.new_text)
                       = IF after.in_block THEN 1 ELSE 0
                /\ IsDirective(l, "comment") =>
                       /\ after.in_block = NamesClass(ValueOf(l))
                       /\ BlockCloses(after.new_text) - BlockCloses(before.new_text)
                              = IF before.in_block THEN 1 ELSE 0
                /\ IsDirective(l, "new_page") \/ IsDirective(l, "page_image") =>
                       /\ ~after.in_block
                       /\ BlockCloses(after.new_text) - BlockCloses(before.new_text)
                              = IF before.in_block THEN 1 ELSE 0
                /\ ~(IsDirective(l, "comment") \/ IsDirective(l, "new_page")
                         \/ IsDirective(l, "page_image")) =>
                       /\ after.in_block = before.in_block
                       /\ after.new_text = before.new_text
                              \/ BlockOpens(after.new_text) = BlockOpens(before.new_text)

\* a song whose comments open a block in an open block, then close it
C25_Witness ==
    /\ song_op = "new"
    /\ src_text = <<"{", "c", ":", " ", ".", "v", " ", "S", "i", "n", "g", "}", "\n", "{", "c", ":", ".", "w", "}", "\n", "x", "\n", "{", "c", ":", " ", "p", "l", "a", "i", "n", "}", "\n", "{", "c", ":", " ", ".", "}", "\n", "{", "c", ":", " ", ".", " ", "y", "}", "\n", "{", "c", ":", " ", ".", "z", "}", "\n", "{", "n", "p", "}">>
    /\ BlockOpens(song_obj.text) = 3
    /\ BlockCloses(song_obj.text) = 3
    /\ ParsedUpTo(2).in_block
    /\ ~ParsedUpTo(4).in_block
    /\ ParsedUpTo(7).in_block

\* a line parse takes for content: no directive and no "#" in front
IsContentLine(l) == Named(l) = {} /\ ~startswith(l, <<"#">>)

\* a tab block is open after the first k lines of the song: the last of
\* them that is a start_of_tab or an end_of_tab is a start_of_tab
RECURSIVE TabOpenAfter(_)
TabOpenAfter(k) ==
    IF k = 0 THEN FALSE
    ELSE IF IsDirective(SourceLines[k], "start_tab") THEN TRUE
    ELSE IF IsDirective(SourceLines[k], "end_tab") THEN FALSE
    ELSE TabOpenAfter(k - 1)

\* what parse adds to the text when it deals with the k-th line
Emitted(k) ==
    SubSeq(ParsedUpTo(k).new_text, Len(ParsedUpTo(k - 1).new_text) + 1,
           Len(ParsedUpTo(k).new_text))

TabFences(t) == Occurrences(t, tab_fence)

\* C26: parse wraps the chord markers of a content line if and only if the
\* line is outside a tab block, a tab block being open from a start_of_tab
\* to the next end_of_tab; a start_of_tab in an open tab block and an
\* end_of_tab outside one add nothing and change nothing, so that the tab
\* fences open and close in turn
C26_ChordsWrappedOutsideTabs ==
    song_op = "new" =>
        \A k \in 1..Len(SourceLines) :
            LET before == ParsedUpTo(k - 1)
                after == ParsedUpTo(k)
                l == SourceLines[k]
            IN  /\ after.in_tab = TabOpenAfter(k)
                /\ TabFences(after.new_text) % 2 = IF after.in_tab THEN 1 ELSE 0
                /\ IsContentLine(l) /\ Enclosed(l, <<"[">>, <<"]">>, 1) # <<>> =>
                       (Contains(Emitted(k), chord_bracket_open) <=> ~TabOpenAfter(k - 1))
                /\ IsDirective(l, "start_tab") =>
                       IF TabOpenAfter(k - 1) THEN after = before
                       ELSE Emitted(k) = tab_fence
                /\ IsDirective(l, "end_tab") =>
                       IF TabOpenAfter(k - 1) THEN Emitted(k) = tab_fence
                       ELSE after = before

\* a tab block that is opened twice and closed twice, with chords in it and
\* after it
C26_Witness ==
    /\ song_op = "new"
    /\ src_text = <<"{", "s", "o", "t", "}", "\n", "[", "C", "]", "x", "\n", "{", "s", "o", "t", "}", "\n", "{", "e", "o", "t", "}", "\n", "[", "D", "]", "\n", "{", "e", "o", "t", "}">>
    /\ TabFences(ParsedUpTo(6).new_text) = 2
    /\ Occurrences(song_obj.text, chord_bracket_open) = 1
    /\ TabOpenAfter(2)
    /\ ~TabOpenAfter(5)

(***************************************************************************)
(* Pagination with the default lists.                                      *)
(***************************************************************************)
\* C27: a call of reorder that leaves new_order and waiting to their
\* defaults gives what a call with two fresh empty lists gives, however many
\* such calls came before it, on this book or on others
C27_DefaultListsAreFresh ==
    op = "reorder_default" =>
        songs = IF legacy
                THEN legacy_reorder(in_start, in_songs, <<>>, <<>>, keep_order)
                ELSE reorder(in_start, in_songs, <<>>, <<>>, keep_order)

(***************************************************************************)
(* cp_song_book.format called again.                                       *)
(***************************************************************************)
\* C28: cp_song_book.format called on a book it has already formatted
\* leaves the list of songs and blanks as it is, with sets or without
C28_FormatIdempotent ==
    [][op = "format" /\ op' = "format" => songs' = songs]_vars

(***************************************************************************)
(* TOC.format: the contents pages rendered.                                *)
(***************************************************************************)
\* the titles that stand in the markup cp_song_book.format left in contents
RenderedTitles ==
    {<<e.kind, e.id>> : e \in {Flatten(contents)[j] : j \in 1..SumLen(contents)}}

\* C29: after cp_song_book.format the rendered contents hold the entry of
\* every set and of every song that is not blank, however many contents
\* pages the entries are split over
C29_EveryPageRendered ==
    op = "format" =>
        \A i \in 1..Len(ExpectedTitles) : ExpectedTitles[i] \in RenderedTitles

(***************************************************************************)
(* Setlists: a song reference above the first set header.                  *)
(***************************************************************************)
\* a song reference stands in the setlist before any set header
ReferenceBeforeAnySet ==
    \E p \in ReferencePositions : \A q \in SetPositions : p < q

\* C30: order_by_setlist takes a setlist whose first song reference stands
\* before any set header: it ends without an error and the new order has
\* one song per reference line
C30_ReferenceBeforeAnySet ==
    (sl_op # "init" /\ ReferenceBeforeAnySet /\ AllReferencesPlain) =>
        /\ sl_op = "done"
        /\ Len(sl_songs) = Cardinality(ReferencePositions)

====
